---- MODULE Spec2Model ----
(***************************************************************************)
(* Streaming ASCII ingestion of spectral_app (ingestion/ascii_loader.py):  *)
(* ColumnStats, RowReservoir, ChunkAccumulator, the fallback table reader  *)
(* and load_ascii_spectrum, with the unit helpers they call.               *)
(*                                                                         *)
(* Two specifications:                                                     *)
(*   SpecAcc  drives one ChunkAccumulator with arbitrary non-empty chunks  *)
(*            and finalize() calls;                                        *)
(*   Spec     runs load_ascii_spectrum on a text source read line by line  *)
(*            by the fallback reader of _read_table.                       *)
(***************************************************************************)
EXTENDS Integers, Sequences, FiniteSets, TLC

VARIABLES
    acc,        \* the ChunkAccumulator (SpecAcc and Spec)
    hist,       \* history: every row handed to process_chunk so far, in order
    nchunks,    \* history: the number of chunks the reader has processed
    out,        \* the value of the last finalize() call (SpecAcc), or NoOut
    pc,         \* position of load_ascii_spectrum (Spec)
    columns,    \* the reader's column names (Spec)
    chunk_rows, \* the reader's unparsed rows of the current chunk (Spec)
    lines,      \* history: the source read so far (Spec): its header, its data
                \* lines, and the lines dropped since the last clean one
    table,      \* what _read_table returned (Spec), or NoOut
    result,     \* the record load_ascii_spectrum returned or the error it raised
    call,       \* a call of one function on its own: its arguments, and its
                \* value once it has returned
    jobs,       \* two ingestions in progress at once (SpecJobs): their inputs,
                \* accumulators and generators
    mast        \* a JWSTMastClient (SpecMast): its relaxed-query message, and
                \* history: the last discover_and_download call, its requests
                \* to the archive and what it returned

vars == <<acc, hist, nchunks, out, pc, columns, chunk_rows, lines, table, result, call, jobs, mast>>

(***************************************************************************)
(* Bounds of the model.                                                    *)
(***************************************************************************)
\* rows offered to one accumulator / data rows of one source
MaxRows == 3
\* significant bits of the floating-point format (binary64 has 53)
Precision == 2
\* rows per chunk of the fallback reader (CHUNK_SIZE, 200000 in the source)
CHUNK_SIZE == 2
\* comment and blank lines between two clean lines of a source
MaxNoise == 1
\* unit words of a generated column label
MaxUnitWords == 3
\* rows of a table the positional lookup returns
MaxObs == 2
\* columns of a table handed to _select_columns
MaxColumns == 3
\* points of a spectrum handed to a function on its own
MaxPoints == 2

(***************************************************************************)
(* Floating-point values: a finite number, not-a-number, or an infinity.   *)
(* Sums round to Precision significant bits; products and quotients of the *)
(* unit conversions are kept exact.                                        *)
(***************************************************************************)
\* A finite value is v / d * 10^x * c^cx (c the speed of light, which enters
\* through the spectral-density equivalency); a parsed cell has d = 1, x = 0,
\* cx = 0.
Num(n) == [k |-> "fin", v |-> n, d |-> 1, x |-> 0, cx |-> 0]
NaN == [k |-> "nan", v |-> 0, d |-> 1, x |-> 0, cx |-> 0]
PosInf == [k |-> "inf", v |-> 1, d |-> 1, x |-> 0, cx |-> 0]
NegInf == [k |-> "inf", v |-> -1, d |-> 1, x |-> 0, cx |-> 0]
IsFinite(x) == x.k = "fin"

RECURSIVE Pow2(_)
Pow2(n) == IF n = 0 THEN 1 ELSE 2 * Pow2(n - 1)

\* the exponent of the unit in the last place of x >= 0
RECURSIVE UlpExp(_)
UlpExp(x) == IF x < Pow2(Precision) THEN 0 ELSE 1 + UlpExp(x \div 2)

\* round-to-nearest, ties-to-even, to Precision significant bits
Fl(x) ==
    LET ulp == Pow2(UlpExp(x))
        q == x \div ulp
        r == x % ulp
    IN  IF r = 0 THEN x
        ELSE IF 2 * r < ulp THEN q * ulp
        ELSE IF 2 * r > ulp THEN (q + 1) * ulp
        ELSE IF q % 2 = 0 THEN q * ulp ELSE (q + 1) * ulp

\* one floating-point addition
FAdd(a, b) == Fl(a + b)

\* ndarray.sum(): the elements added left to right
RECURSIVE FSumFrom(_, _)
FSumFrom(s, xs) == IF xs = <<>> THEN s ELSE FSumFrom(FAdd(s, Head(xs)), Tail(xs))

FSum(xs) == FSumFrom(0, xs)

Min2(a, b) == IF a <= b THEN a ELSE b
Max2(a, b) == IF a >= b THEN a ELSE b

RECURSIVE SeqMin(_)
SeqMin(xs) == IF Len(xs) = 1 THEN xs[1] ELSE Min2(xs[1], SeqMin(Tail(xs)))

RECURSIVE SeqMax(_)
SeqMax(xs) == IF Len(xs) = 1 THEN xs[1] ELSE Max2(xs[1], SeqMax(Tail(xs)))

SetMax(S) == CHOOSE x \in S : \A y \in S : y <= x

\* np.full(n, nan)
NaNs(n) == [i \in 1..n |-> NaN]

(***************************************************************************)
(* ColumnStats                                                             *)
(***************************************************************************)
NewColumnStats == [count |-> 0, sum |-> 0, sum_sq |-> 0, min |-> PosInf, max |-> NegInf]

\* values[np.isfinite(values)], as plain numbers
FiniteOf(values) ==
    LET f == SelectSeq(values, IsFinite) IN [i \in 1..Len(f) |-> f[i].v]

\* update() counting every cell of the chunk, finite or not
ColumnStats_update_count_all(s, values) ==
    LET finite == FiniteOf(values)
        finite_min == SeqMin(finite)
        finite_max == SeqMax(finite)
    IN  IF Len(finite) = 0 THEN s
        ELSE [count  |-> s.count + Len(values),
              sum    |-> FAdd(s.sum, FSum(finite)),
              sum_sq |-> FAdd(s.sum_sq, FSum([i \in 1..Len(finite) |-> Fl(finite[i] * finite[i])])),
              min    |-> IF s.count = 0 THEN Num(finite_min) ELSE Num(Min2(s.min.v, finite_min)),
              max    |-> IF s.count = 0 THEN Num(finite_max) ELSE Num(Max2(s.max.v, finite_max))]

ColumnStats_update(s, values) ==
    LET finite == FiniteOf(values)
        finite_min == SeqMin(finite)
        finite_max == SeqMax(finite)
    IN  IF Len(finite) = 0 THEN s
        ELSE [count  |-> s.count + Len(finite),
              sum    |-> FAdd(s.sum, FSum(finite)),
              sum_sq |-> FAdd(s.sum_sq, FSum([i \in 1..Len(finite) |-> Fl(finite[i] * finite[i])])),
              min    |-> IF s.count = 0 THEN Num(finite_min) ELSE Num(Min2(s.min.v, finite_min)),
              max    |-> IF s.count = 0 THEN Num(finite_max) ELSE Num(Max2(s.max.v, finite_max))]

\* as_dict() of a column with count > 0.  mean = sum / count is kept as the
\* pair <<sum, count>>; std = sqrt(max(sum_sq / count - mean^2, 0)) as the
\* variance <<max(count * sum_sq - sum^2, 0), count^2>> it is the root of.
ColumnStats_as_dict(s) ==
    [count |-> s.count,
     min   |-> s.min,
     max   |-> s.max,
     mean  |-> <<s.sum, s.count>>,
     std   |-> <<Max2(s.count * s.sum_sq - s.sum * s.sum, 0), s.count * s.count>>]

(***************************************************************************)
(* RowReservoir.  The generator's draws are an input: add() takes the      *)
(* pending draws and consumes one per full tier.                           *)
(***************************************************************************)
\* DOWNSAMPLE_TIERS, (512, 2048, 8192) in the source
DOWNSAMPLE_TIERS == <<1, 2, 3>>

TierSizes == {DOWNSAMPLE_TIERS[t] : t \in 1..Len(DOWNSAMPLE_TIERS)}

NewRowReservoir == [tiers |-> [size \in TierSizes |-> <<>>], total_seen |-> 0]

\* TierLoop with a full tier growing: the drawn row is appended where the
\* code overwrites the bucket's entry
RECURSIVE TierLoop_append(_, _, _)
TierLoop_append(st, row, t) ==
    IF t > Len(DOWNSAMPLE_TIERS) THEN st
    ELSE LET size == DOWNSAMPLE_TIERS[t]
             bucket == st.r.tiers[size]
         IN  IF Len(bucket) < size
             THEN TierLoop_append([st EXCEPT !.r.tiers[size] = Append(bucket, row)], row, t + 1)
             ELSE IF st.d = <<>> THEN [st EXCEPT !.ok = FALSE]
             ELSE LET idx == Head(st.d)
                      st2 == [r  |-> IF idx < size
                                     THEN [st.r EXCEPT !.tiers[size] = Append(bucket, row)]
                                     ELSE st.r,
                              d  |-> Tail(st.d),
                              ok |-> st.ok /\ idx < st.r.total_seen]
                  IN  TierLoop_append(st2, row, t + 1)

\* TierLoop with a full tier overwriting its first entry whenever the draw
\* falls inside the tier
RECURSIVE TierLoop_first_slot(_, _, _)
TierLoop_first_slot(st, row, t) ==
    IF t > Len(DOWNSAMPLE_TIERS) THEN st
    ELSE LET size == DOWNSAMPLE_TIERS[t]
             bucket == st.r.tiers[size]
         IN  IF Len(bucket) < size
             THEN TierLoop_first_slot([st EXCEPT !.r.tiers[size] = Append(bucket, row)], row, t + 1)
             ELSE IF st.d = <<>> THEN [st EXCEPT !.ok = FALSE]
             ELSE LET idx == Head(st.d)
                      st2 == [r  |-> IF idx < size
                                     THEN [st.r EXCEPT !.tiers[size][1] = row]
                                     ELSE st.r,
                              d  |-> Tail(st.d),
                              ok |-> st.ok /\ idx < st.r.total_seen]
                  IN  TierLoop_first_slot(st2, row, t + 1)

\* st = [r: the reservoir, d: the draws not yet consumed, ok: every draw so
\* far was one rng.integers(0, total_seen) can return and none was missing]
RECURSIVE TierLoop(_, _, _)
TierLoop(st, row, t) ==
    IF t > Len(DOWNSAMPLE_TIERS) THEN st
    ELSE LET size == DOWNSAMPLE_TIERS[t]
             bucket == st.r.tiers[size]
         IN  IF Len(bucket) < size
             THEN TierLoop([st EXCEPT !.r.tiers[size] = Append(bucket, row)], row, t + 1)
             ELSE IF st.d = <<>> THEN [st EXCEPT !.ok = FALSE]
             ELSE LET idx == Head(st.d)
                      st2 == [r  |-> IF idx < size
                                     THEN [st.r EXCEPT !.tiers[size][idx + 1] = row]
                                     ELSE st.r,
                              d  |-> Tail(st.d),
                              ok |-> st.ok /\ idx < st.r.total_seen]
                  IN  TierLoop(st2, row, t + 1)

RowReservoir_add(st, row) ==
    IF DOMAIN row = {} THEN st
    ELSE TierLoop([st EXCEPT !.r.total_seen = @ + 1], row, 1)

RowReservoir_export(r) == r.tiers

(***************************************************************************)
(* ChunkAccumulator                                                        *)
(***************************************************************************)
ColSet(cols) == {cols[i] : i \in 1..Len(cols)}

NewChunkAccumulator(cols) ==
    [columns            |-> cols,
     buffers            |-> [c \in ColSet(cols) |-> <<>>],
     pending_nans       |-> [c \in ColSet(cols) |-> 0],
     column_has_numeric |-> [c \in ColSet(cols) |-> FALSE],
     stats              |-> [c \in ColSet(cols) |-> NewColumnStats],
     reservoir          |-> NewRowReservoir,
     row_count          |-> 0]

\* ColumnLoop without the deferred padding: a chunk with a finite value is
\* appended right after the last one that had one
RECURSIVE ColumnLoop_no_padding(_, _, _, _)
ColumnLoop_no_padding(a, chunk, cols, idx) ==
    IF idx > Len(cols) THEN a
    ELSE LET col == cols[idx]
             chunk_len == Len(chunk)
             column_values == [r \in 1..chunk_len |-> chunk[r][idx]]
             a2 == IF \E r \in 1..chunk_len : IsFinite(chunk[r][idx])
                   THEN [a EXCEPT
                           !.buffers[col] = @ \o column_values,
                           !.pending_nans[col] = 0,
                           !.column_has_numeric[col] = TRUE,
                           !.stats[col] = ColumnStats_update(@, column_values)]
                   ELSE [a EXCEPT !.pending_nans[col] = @ + chunk_len]
         IN  ColumnLoop_no_padding(a2, chunk, cols, idx + 1)

\* the per-column loop of process_chunk, from column idx on
RECURSIVE ColumnLoop(_, _, _, _)
ColumnLoop(a, chunk, cols, idx) ==
    IF idx > Len(cols) THEN a
    ELSE LET col == cols[idx]
             chunk_len == Len(chunk)
             column_values == [r \in 1..chunk_len |-> chunk[r][idx]]
             a2 == IF \E r \in 1..chunk_len : IsFinite(chunk[r][idx])
                   THEN [a EXCEPT
                           !.buffers[col] = (@ \o NaNs(a.pending_nans[col])) \o column_values,
                           !.pending_nans[col] = 0,
                           !.column_has_numeric[col] = TRUE,
                           !.stats[col] = ColumnStats_update(@, column_values)]
                   ELSE [a EXCEPT !.pending_nans[col] = @ + chunk_len]
         IN  ColumnLoop(a2, chunk, cols, idx + 1)

\* {columns[idx]: float(row_vals[idx]) for idx, keep in enumerate(row_mask) if keep}
RowDict(row_vals, cols) ==
    LET keep == {i \in 1..Len(cols) : IsFinite(row_vals[i])}
    IN  [c \in {cols[i] : i \in keep} |->
            row_vals[SetMax({i \in keep : cols[i] = c})].v]

\* the per-row loop of process_chunk, from row r on
RECURSIVE RowLoop(_, _, _, _)
RowLoop(st, chunk, cols, r) ==
    IF r > Len(chunk) THEN st
    ELSE LET row_dict == RowDict(chunk[r], cols)
         IN  RowLoop(IF Cardinality(DOMAIN row_dict) >= 2
                     THEN RowReservoir_add(st, row_dict)
                     ELSE st,
                     chunk, cols, r + 1)

\* process_chunk counting only the rows it offers to the reservoir
ProcessChunk_count_offered(a, chunk, cols, draws) ==
    IF Len(chunk) = 0 \/ Len(cols) = 0 THEN [a |-> a, ok |-> draws = <<>>]
    ELSE LET offered == Cardinality({r \in 1..Len(chunk) :
                                       Cardinality(DOMAIN RowDict(chunk[r], cols)) >= 2})
             a1 == ColumnLoop([a EXCEPT !.row_count = @ + offered], chunk, cols, 1)
             st == RowLoop([r |-> a.reservoir, d |-> draws, ok |-> TRUE], chunk, cols, 1)
         IN  [a  |-> [a1 EXCEPT !.reservoir = st.r],
              ok |-> st.ok /\ st.d = <<>>]

\* process_chunk(chunk, columns) with the generator's next draws; the value
\* is [a: the accumulator afterwards, ok: the draws are exactly those the
\* call consumes, each within its range]
ProcessChunk(a, chunk, cols, draws) ==
    IF Len(chunk) = 0 \/ Len(cols) = 0 THEN [a |-> a, ok |-> draws = <<>>]
    ELSE LET a1 == ColumnLoop([a EXCEPT !.row_count = @ + Len(chunk)], chunk, cols, 1)
             st == RowLoop([r |-> a.reservoir, d |-> draws, ok |-> TRUE], chunk, cols, 1)
         IN  [a  |-> [a1 EXCEPT !.reservoir = st.r],
              ok |-> st.ok /\ st.d = <<>>]

\* FinalizeLoop retaining every column, numeric or not
RECURSIVE FinalizeLoop_keep_all(_, _)
FinalizeLoop_keep_all(f, idx) ==
    IF idx > Len(f.a.columns) THEN f
    ELSE LET col == f.a.columns[idx]
             buf == f.a.buffers[col] \o NaNs(f.a.pending_nans[col])
         IN  FinalizeLoop_keep_all(
               [a |-> [f.a EXCEPT !.buffers[col] = buf, !.pending_nans[col] = 0],
                column_data |-> [c \in DOMAIN f.column_data \cup {col} |->
                                   IF c = col THEN buf ELSE f.column_data[c]],
                kept |-> IF col \in DOMAIN f.column_data THEN f.kept
                         ELSE Append(f.kept, col),
                skipped_columns |-> f.skipped_columns],
               idx + 1)

\* the loop of finalize() without the trailing padding of a retained column
RECURSIVE FinalizeLoop_no_trailing(_, _)
FinalizeLoop_no_trailing(f, idx) ==
    IF idx > Len(f.a.columns) THEN f
    ELSE LET col == f.a.columns[idx]
         IN  IF f.a.column_has_numeric[col]
             THEN LET buf == f.a.buffers[col]
                  IN  FinalizeLoop_no_trailing(
                        [a |-> f.a,
                         column_data |-> [c \in DOMAIN f.column_data \cup {col} |->
                                            IF c = col THEN buf ELSE f.column_data[c]],
                         kept |-> IF col \in DOMAIN f.column_data THEN f.kept
                                  ELSE Append(f.kept, col),
                         skipped_columns |-> f.skipped_columns],
                        idx + 1)
             ELSE FinalizeLoop_no_trailing([f EXCEPT !.skipped_columns = Append(@, col)],
                                           idx + 1)

\* the loop of finalize() that flushes the deferred count without clearing it
RECURSIVE FinalizeLoop_keep_pending(_, _)
FinalizeLoop_keep_pending(f, idx) ==
    IF idx > Len(f.a.columns) THEN f
    ELSE LET col == f.a.columns[idx]
         IN  IF f.a.column_has_numeric[col]
             THEN LET buf == f.a.buffers[col] \o NaNs(f.a.pending_nans[col])
                  IN  FinalizeLoop_keep_pending(
                        [a |-> [f.a EXCEPT !.buffers[col] = buf],
                         column_data |-> [c \in DOMAIN f.column_data \cup {col} |->
                                            IF c = col THEN buf ELSE f.column_data[c]],
                         kept |-> IF col \in DOMAIN f.column_data THEN f.kept
                                  ELSE Append(f.kept, col),
                         skipped_columns |-> f.skipped_columns],
                        idx + 1)
             ELSE FinalizeLoop_keep_pending([f EXCEPT !.skipped_columns = Append(@, col)],
                                            idx + 1)

\* the per-column loop of finalize(), from column idx on;
\* f = [a: the accumulator, column_data, skipped_columns]
RECURSIVE FinalizeLoop(_, _)
FinalizeLoop(f, idx) ==
    IF idx > Len(f.a.columns) THEN f
    ELSE LET col == f.a.columns[idx]
         IN  IF f.a.column_has_numeric[col]
             THEN LET buf == f.a.buffers[col] \o NaNs(f.a.pending_nans[col])
                  IN  FinalizeLoop(
                        [a |-> [f.a EXCEPT !.buffers[col] = buf, !.pending_nans[col] = 0],
                         column_data |-> [c \in DOMAIN f.column_data \cup {col} |->
                                            IF c = col THEN buf ELSE f.column_data[c]],
                         kept |-> IF col \in DOMAIN f.column_data THEN f.kept
                                  ELSE Append(f.kept, col),
                         skipped_columns |-> f.skipped_columns],
                        idx + 1)
             ELSE FinalizeLoop([f EXCEPT !.skipped_columns = Append(@, col)], idx + 1)

\* finalize(): [a: the accumulator afterwards, ret: the returned tuple]
\* (kept: the keys of column_data in insertion order)
Finalize(a) ==
    LET f == FinalizeLoop([a |-> a, column_data |-> <<>>, kept |-> <<>>,
                           skipped_columns |-> <<>>], 1)
        with_stats == {c \in ColSet(a.columns) : a.stats[c].count > 0}
    IN  [a   |-> f.a,
         ret |-> [column_data     |-> f.column_data,
                  kept            |-> f.kept,
                  skipped_columns |-> f.skipped_columns,
                  stats           |-> [c \in with_stats |-> ColumnStats_as_dict(a.stats[c])],
                  reservoirs      |-> RowReservoir_export(a.reservoir),
                  row_count       |-> a.row_count]]

(***************************************************************************)
(* Text.  Strings are Python str values; Ch(s, i) is s[i-1].               *)
(***************************************************************************)
Ch(s, i) == SubSeq(s, i, i)

UpperLetters == "ABCDEFGHIJKLMNOPQRSTUVWXYZ"
LowerLetters == "abcdefghijklmnopqrstuvwxyz"
DigitChars == "0123456789"

CharsOf(s) == {Ch(s, i) : i \in 1..Len(s)}

AlphaChars == CharsOf(UpperLetters) \cup CharsOf(LowerLetters)
TokenChars == CharsOf(LowerLetters) \cup CharsOf(DigitChars)
UpperChars == CharsOf(UpperLetters)

\* c.isalpha(), for ASCII text
IsAlpha(c) == c \in AlphaChars

\* [a-z0-9]
IsTokenChar(c) == c \in TokenChars

LowerCh(c) ==
    IF c \in UpperChars
    THEN Ch(LowerLetters, CHOOSE i \in 1..Len(UpperLetters) : Ch(UpperLetters, i) = c)
    ELSE c

\* str.lower()
RECURSIVE Lower(_)
Lower(s) == IF s = "" THEN "" ELSE LowerCh(Head(s)) \o Lower(Tail(s))

\* str.strip(), the whitespace being blanks
RECURSIVE LStrip(_)
LStrip(s) == IF s # "" /\ Head(s) = " " THEN LStrip(Tail(s)) ELSE s

RECURSIVE RStrip(_)
RStrip(s) == IF s # "" /\ Ch(s, Len(s)) = " " THEN RStrip(SubSeq(s, 1, Len(s) - 1)) ELSE s

Strip(s) == RStrip(LStrip(s))

\* str.startswith
StartsWith(s, prefix) == Len(s) >= Len(prefix) /\ SubSeq(s, 1, Len(prefix)) = prefix

\* re.findall(r"[a-z0-9]+", s): cur is the run being read
RECURSIVE FindAllFrom(_, _)
FindAllFrom(s, cur) ==
    IF s = "" THEN (IF cur = "" THEN <<>> ELSE <<cur>>)
    ELSE IF IsTokenChar(Head(s)) THEN FindAllFrom(Tail(s), cur \o Head(s))
    ELSE (IF cur = "" THEN <<>> ELSE <<cur>>) \o FindAllFrom(Tail(s), "")

FindAll(s) == FindAllFrom(s, "")

\* "".join(tokens)
RECURSIVE Join(_)
Join(tokens) == IF tokens = <<>> THEN "" ELSE Head(tokens) \o Join(Tail(tokens))

\* str(n) of n >= 0
RECURSIVE Str(_)
Str(n) == IF n < 10 THEN Ch(DigitChars, n + 1) ELSE Str(n \div 10) \o Ch(DigitChars, (n % 10) + 1)

\* the position of the first close character after position i, or 0
FirstAfter(s, i, close) ==
    LET js == {j \in (i + 1)..Len(s) : Ch(s, j) = close}
    IN  IF js = {} THEN 0 ELSE CHOOSE j \in js : \A j2 \in js : j <= j2

\* UNIT_PATTERN.search(label): \(([^\)]+)\) | \[([^\]]+)\], leftmost match;
\* the value is the matched group, or "" when nothing matches
RECURSIVE UnitPatternFrom(_, _)
UnitPatternFrom(label, i) ==
    IF i > Len(label) THEN ""
    ELSE LET close == IF Ch(label, i) = "(" THEN ")" ELSE IF Ch(label, i) = "[" THEN "]" ELSE ""
             j == FirstAfter(label, i, close)
         IN  IF close # "" /\ j > i + 1
             THEN SubSeq(label, i + 1, j - 1)
             ELSE UnitPatternFrom(label, i + 1)

(***************************************************************************)
(* Units (astropy.units): a unit is a scale 10^e times kg^m metre^l s^t.   *)
(***************************************************************************)
Unit(m, l, t, e) == [is |-> "unit", m |-> m, l |-> l, t |-> t, e |-> e]
NoUnit == [is |-> "none", m |-> 0, l |-> 0, t |-> 0, e |-> 0]

u_AA == Unit(0, 1, 0, -10)
u_nm == Unit(0, 1, 0, -9)
u_micron == Unit(0, 1, 0, -6)
u_Hz == Unit(0, 0, -1, 0)
u_Jy == Unit(1, 0, -2, -26)
u_mJy == Unit(1, 0, -2, -29)
u_erg == Unit(1, 2, -2, -7)
u_W == Unit(1, 2, -3, 0)
u_s == Unit(0, 0, 1, 0)
u_m == Unit(0, 1, 0, 0)
u_cm == Unit(0, 1, 0, -2)
dimensionless_unscaled == Unit(0, 0, 0, 0)

UnitMul(a, b) == Unit(a.m + b.m, a.l + b.l, a.t + b.t, a.e + b.e)
UnitDiv(a, b) == Unit(a.m - b.m, a.l - b.l, a.t - b.t, a.e - b.e)
UnitPow(a, n) == Unit(a.m * n, a.l * n, a.t * n, a.e * n)

\* a.is_equivalent(b) without equivalencies: the same physical type
SameDimension(a, b) == a.m = b.m /\ a.l = b.l /\ a.t = b.t

CANONICAL_WAVELENGTH_UNIT == u_nm
CANONICAL_FLUX_UNIT == u_Jy

UNIT_KEYWORDS ==
    ("angstrom" :> u_AA) @@ ("ang" :> u_AA) @@ ("aa" :> u_AA) @@
    ("nm" :> u_nm) @@ ("nanometer" :> u_nm) @@
    ("micron" :> u_micron) @@ ("um" :> u_micron) @@
    ("hz" :> u_Hz) @@ ("jy" :> u_Jy) @@
    ("erg" :> UnitDiv(u_erg, UnitMul(u_s, UnitPow(u_cm, 2)))) @@
    ("w" :> u_W) @@ ("watt" :> u_W) @@ ("watts" :> u_W) @@
    ("s" :> u_s) @@ ("sec" :> u_s) @@ ("second" :> u_s) @@ ("seconds" :> u_s) @@
    ("m" :> u_m) @@ ("m2" :> UnitPow(u_m, 2)) @@ ("m3" :> UnitPow(u_m, 3)) @@
    ("cm" :> u_cm) @@ ("cm2" :> UnitPow(u_cm, 2)) @@ ("cm3" :> UnitPow(u_cm, 3))

TOKEN_UNIT_MAP == [UNIT_KEYWORDS EXCEPT !["erg"] = u_erg]

TOKEN_SKIP_WORDS == {"per", "of", "to", "in", "at"}

\* the merge loop of _extract_tokens
RECURSIVE MergeTokens(_)
MergeTokens(tokens) ==
    IF tokens = <<>> THEN <<>>
    ELSE IF Len(tokens) >= 2
            /\ (tokens[1] \o tokens[2] \in DOMAIN UNIT_KEYWORDS
                \/ tokens[1] \o tokens[2] \in DOMAIN TOKEN_UNIT_MAP)
         THEN <<tokens[1] \o tokens[2]>> \o MergeTokens(SubSeq(tokens, 3, Len(tokens)))
         ELSE <<tokens[1]>> \o MergeTokens(Tail(tokens))

extract_tokens(text) == MergeTokens(FindAll(Lower(text)))

\* the units of the tokens that are neither skip words nor unknown
RECURSIVE UnitSequence(_)
UnitSequence(tokens) ==
    IF tokens = <<>> THEN <<>>
    ELSE IF Head(tokens) \notin TOKEN_SKIP_WORDS /\ Head(tokens) \in DOMAIN TOKEN_UNIT_MAP
         THEN <<TOKEN_UNIT_MAP[Head(tokens)]>> \o UnitSequence(Tail(tokens))
         ELSE UnitSequence(Tail(tokens))

RECURSIVE DivideAll(_, _)
DivideAll(composite, units) ==
    IF units = <<>> THEN composite
    ELSE DivideAll(UnitDiv(composite, Head(units)), Tail(units))

unit_from_composite(tokens) ==
    LET unit_sequence == UnitSequence(tokens)
    IN  IF Len(unit_sequence) < 2 THEN NoUnit
        ELSE DivideAll(unit_sequence[1], Tail(unit_sequence))

\* u.Unit(text) of astropy, on the texts the labels of the model reach it
\* with; every other text of the model is no unit expression
AstropyUnits == ("mJy" :> u_mJy)

ParseUnit(text) == IF text \in DOMAIN AstropyUnits THEN AstropyUnits[text] ELSE NoUnit

\* the first token that is a keyword, or ""
RECURSIVE FirstKeyword(_)
FirstKeyword(tokens) ==
    IF tokens = <<>> THEN ""
    ELSE IF Head(tokens) \in DOMAIN UNIT_KEYWORDS THEN Head(tokens)
    ELSE FirstKeyword(Tail(tokens))

\* infer_unit_from_label trying the composite of the tokens before their
\* concatenation
infer_unit_from_label_composite_first(label) ==
    LET group == UnitPatternFrom(label, 1)
        unit_token == IF group # "" THEN group ELSE label
        cleaned == Strip(unit_token)
        tokens == extract_tokens(cleaned)
        normalized == Join(tokens)
        composite == unit_from_composite(tokens)
    IN  IF tokens = <<>> THEN NoUnit
        ELSE IF composite # NoUnit THEN composite
        ELSE IF normalized \in DOMAIN UNIT_KEYWORDS THEN UNIT_KEYWORDS[normalized]
        ELSE IF FirstKeyword(tokens) # "" THEN UNIT_KEYWORDS[FirstKeyword(tokens)]
        ELSE ParseUnit(cleaned)

\* infer_unit_from_label without the composite of the tokens
infer_unit_from_label_no_composite(label) ==
    LET group == UnitPatternFrom(label, 1)
        unit_token == IF group # "" THEN group ELSE label
        cleaned == Strip(unit_token)
        tokens == extract_tokens(cleaned)
        normalized == Join(tokens)
    IN  IF tokens = <<>> THEN NoUnit
        ELSE IF normalized \in DOMAIN UNIT_KEYWORDS THEN UNIT_KEYWORDS[normalized]
        ELSE IF FirstKeyword(tokens) # "" THEN UNIT_KEYWORDS[FirstKeyword(tokens)]
        ELSE ParseUnit(cleaned)

infer_unit_from_label(label) ==
    LET group == UnitPatternFrom(label, 1)
        unit_token == IF group # "" THEN group ELSE label
        cleaned == Strip(unit_token)
        tokens == extract_tokens(cleaned)
        normalized == Join(tokens)
        composite == unit_from_composite(tokens)
    IN  IF tokens = <<>> THEN NoUnit
        ELSE IF normalized \in DOMAIN UNIT_KEYWORDS THEN UNIT_KEYWORDS[normalized]
        ELSE IF composite # NoUnit THEN composite
        ELSE IF FirstKeyword(tokens) # "" THEN UNIT_KEYWORDS[FirstKeyword(tokens)]
        ELSE ParseUnit(cleaned)

(***************************************************************************)
(* Quantities: [unit, value], value a sequence of floating-point values.   *)
(***************************************************************************)
\* Quantity.to(target) without equivalencies, for units of one dimension
ConvertValues(values, from, target) ==
    [i \in 1..Len(values) |->
        IF IsFinite(values[i]) THEN [values[i] EXCEPT !.x = @ + from.e - target.e]
        ELSE values[i]]

\* the dimensions u.spectral_density() converts to a flux density per
\* frequency: energy flux per wavelength (f_lambda), and energy flux (nu f_nu)
IsFLambda(unit) == unit.m = 1 /\ unit.l = -1 /\ unit.t = -3
IsNuFNu(unit) == unit.m = 1 /\ unit.l = 0 /\ unit.t = -3

\* flux.to(Jy, equivalencies=u.spectral_density(wav)), wav in nm:
\* f_nu = f_lambda * wav^2 / c, or f_nu = (nu f_nu) * wav / c
SpectralDensityValues(values, from, wav) ==
    [i \in 1..Len(values) |->
        IF IsFinite(values[i]) /\ IsFinite(wav[i])
        THEN IF IsFLambda(from)
             THEN [values[i] EXCEPT
                     !.v = @ * wav[i].v * wav[i].v,
                     !.x = @ + from.e + 2 * (wav[i].x + CANONICAL_WAVELENGTH_UNIT.e)
                             - CANONICAL_FLUX_UNIT.e,
                     !.cx = @ - 1]
             ELSE [values[i] EXCEPT
                     !.v = @ * wav[i].v,
                     !.x = @ + from.e + (wav[i].x + CANONICAL_WAVELENGTH_UNIT.e)
                             - CANONICAL_FLUX_UNIT.e,
                     !.cx = @ - 1]
        ELSE NaN]

\* the try / except UnitConversionError chain that converts a flux to Jy:
\* directly, else through the spectral-density equivalency, else left as is
FluxToCanonical(values, unit, wav) ==
    IF SameDimension(unit, CANONICAL_FLUX_UNIT)
    THEN [unit |-> CANONICAL_FLUX_UNIT, value |-> ConvertValues(values, unit, CANONICAL_FLUX_UNIT)]
    ELSE IF IsFLambda(unit) \/ IsNuFNu(unit)
    THEN [unit |-> CANONICAL_FLUX_UNIT, value |-> SpectralDensityValues(values, unit, wav)]
    ELSE [unit |-> unit, value |-> values]

\* unit.to_string() of the units the labels of the model infer
UnitNames ==
    (u_AA :> "Angstrom") @@ (u_nm :> "nm") @@ (u_micron :> "micron") @@
    (u_Hz :> "Hz") @@ (u_Jy :> "Jy") @@ (u_mJy :> "mJy") @@ (u_W :> "W") @@
    (Unit(1, -1, -3, 9) :> "W / (m2 nm)") @@
    (Unit(1, 0, -3, -3) :> "erg / (s cm2)") @@
    (dimensionless_unscaled :> "")

to_string(unit) == UnitNames[unit]

(***************************************************************************)
(* numpy on the spectral axis                                              *)
(***************************************************************************)
\* a sorts at or before b: not-a-number sorts last
SortsLE(a, b) == ~IsFinite(b) \/ (IsFinite(a) /\ a.v <= b.v)

\* np.argsort(values), whose default sort is not stable: the orders it can
\* return put the values in ascending order, equal values in any order
ArgSort(values) ==
    {order \in [1..Len(values) -> 1..Len(values)] :
        /\ \A i, j \in 1..Len(values) : i # j => order[i] # order[j]
        /\ \A i \in 1..(Len(values) - 1) : SortsLE(values[order[i]], values[order[i + 1]])}

Take(values, order) == [i \in 1..Len(order) |-> values[order[i]]]

\* np.unique(values) of a sorted array (equal not-a-numbers collapse)
RECURSIVE UniqueSorted(_)
UniqueSorted(values) ==
    IF Len(values) <= 1 THEN values
    ELSE LET rest == UniqueSorted(Tail(values))
         IN  IF values[1] = values[2] THEN rest ELSE <<values[1]>> \o rest

\* the inverse of np.unique(..., return_inverse=True), 1-based
Inverse(values, unique) ==
    [i \in 1..Len(values) |-> CHOOSE g \in 1..Len(unique) : unique[g] = values[i]]

\* one floating-point addition of two flux values of one unit
FltAdd(a, b) ==
    IF IsFinite(a) /\ IsFinite(b) THEN [a EXCEPT !.v = FAdd(a.v, b.v)] ELSE NaN

\* np.add.at(summed, inverse, flux_values) on zeros: what slot g receives
RECURSIVE AddAt(_, _, _, _)
AddAt(sum, flux_values, inverse, g) ==
    IF flux_values = <<>> THEN sum
    ELSE AddAt(IF Head(inverse) = g THEN FltAdd(sum, Head(flux_values)) ELSE sum,
               Tail(flux_values), Tail(inverse), g)

\* the sums left undivided
FltDiv_sum(a, n) == a

\* summed_flux / counts
FltDiv(a, n) == IF IsFinite(a) THEN [a EXCEPT !.d = @ * n] ELSE a

\* np.any(np.diff(values) <= 0): a difference with a not-a-number is a
\* not-a-number, which is not <= 0
AnyDiffNonPositive(values) ==
    \E i \in 1..(Len(values) - 1) :
        IsFinite(values[i]) /\ IsFinite(values[i + 1]) /\ values[i + 1].v - values[i].v <= 0

(***************************************************************************)
(* _resolve_column / _select_columns                                       *)
(***************************************************************************)
COLUMN_PRIORITY == <<"wavelength", "lambda", "wave", "wl">>
FLUX_PRIORITY == <<"flux", "intensity", "power", "counts">>

NoColumn == [found |-> FALSE, col |-> ""]
Column(c) == [found |-> TRUE, col |-> c]

\* lowered[candidate] of lowered = {col.lower(): col for col in columns}:
\* the last column with that lowercase name
Lowered(cols, lower, candidate) ==
    cols[SetMax({i \in 1..Len(cols) : lower[i] = candidate})]

resolve_column(name_candidates, cols) ==
    LET lower == [i \in 1..Len(cols) |-> Lower(cols[i])]
        exact == {k \in 1..Len(name_candidates) :
                    \E i \in 1..Len(cols) : lower[i] = name_candidates[k]}
        prefixed == {i \in 1..Len(cols) :
                    \E k \in 1..Len(name_candidates) :
                        StartsWith(lower[i], name_candidates[k])}
    IN  IF exact # {}
        THEN Column(Lowered(cols, lower,
                            name_candidates[CHOOSE k \in exact : \A k2 \in exact : k <= k2]))
        ELSE IF prefixed # {}
        THEN Column(cols[CHOOSE i \in prefixed : \A i2 \in prefixed : i <= i2])
        ELSE NoColumn

\* _select_columns(columns): <<wave_col, flux_col>>
select_columns(cols) ==
    LET w == resolve_column(COLUMN_PRIORITY, cols)
        f == resolve_column(FLUX_PRIORITY, cols)
        wave_col == IF w.found THEN w.col ELSE cols[1]
        flux_candidates == SelectSeq(cols, LAMBDA c : c # wave_col)
        flux_col == IF f.found THEN f.col
                    ELSE IF flux_candidates # <<>> THEN flux_candidates[1] ELSE wave_col
    IN  <<wave_col, flux_col>>

(***************************************************************************)
(* SpecAcc: one ChunkAccumulator fed arbitrary non-empty chunks.           *)
(***************************************************************************)
NoOut == [none |-> TRUE]

\* the column names of the accumulator under SpecAcc
AccColumns == <<"wavelength", "flux">>

\* the rows of a numeric chunk: equal and distinct wavelengths, and cells
\* that are not a number in either column or in both
AccRows ==
    { <<Num(2), Num(2)>>, <<Num(2), Num(3)>>, <<Num(3), Num(2)>>,
      <<NaN, Num(3)>>, <<Num(2), NaN>>, <<NaN, NaN>> }

\* the non-empty chunks of at most n rows
ChunksUpTo(n) == UNION {[1..l -> AccRows] : l \in 1..n}

\* rows of the chunk that process_chunk offers to the reservoir
Offered(chunk, cols) ==
    Cardinality({r \in 1..Len(chunk) : Cardinality(DOMAIN RowDict(chunk[r], cols)) >= 2})

\* the exclusive upper bounds of the draws that offering k more rows
\* consumes, in order: row j meets tier t full when the rows seen before it
\* are at least the tier's size, and then draws rng.integers(0, total_seen)
RECURSIVE DrawBounds(_, _, _, _)
DrawBounds(seen, k, j, t) ==
    IF j > k THEN <<>>
    ELSE IF t > Len(DOWNSAMPLE_TIERS) THEN DrawBounds(seen, k, j + 1, 1)
    ELSE IF seen + j - 1 >= DOWNSAMPLE_TIERS[t]
         THEN <<seen + j>> \o DrawBounds(seen, k, j, t + 1)
         ELSE DrawBounds(seen, k, j, t + 1)

\* the draw sequences the generator can deliver to one process_chunk call
DrawsFor(a, chunk, cols) ==
    LET b == DrawBounds(a.reservoir.total_seen, Offered(chunk, cols), 1, 1)
    IN  {d \in [1..Len(b) -> 0..(a.reservoir.total_seen + Len(chunk) - 1)] :
            \A i \in 1..Len(b) : d[i] < b[i]}

LoadIdle ==
    /\ pc = "idle"
    /\ columns = <<>>
    /\ chunk_rows = <<>>
    /\ lines = [noise |-> 0, header |-> <<>>, rows |-> <<>>]
    /\ table = NoOut
    /\ result = NoOut
    /\ call = NoOut
    /\ jobs = NoOut
    /\ mast = NoOut

InitAcc ==
    /\ acc = NewChunkAccumulator(AccColumns)
    /\ hist = <<>>
    /\ nchunks = 0
    /\ out = NoOut
    /\ LoadIdle

AccProcessChunk ==
    /\ Len(hist) < MaxRows
    /\ \E chunk \in ChunksUpTo(MaxRows - Len(hist)) :
         \E draws \in DrawsFor(acc, chunk, AccColumns) :
            LET p == ProcessChunk(acc, chunk, AccColumns, draws)
            IN  /\ p.ok
                /\ acc' = p.a
                /\ hist' = hist \o chunk
    /\ out' = NoOut
    /\ UNCHANGED <<nchunks, pc, columns, chunk_rows, lines, table, result, call, jobs, mast>>

AccFinalize ==
    /\ LET f == Finalize(acc)
       IN  /\ acc' = f.a
           /\ out' = f.ret
    /\ UNCHANGED <<hist, nchunks, pc, columns, chunk_rows, lines, table, result, call, jobs, mast>>

(***************************************************************************)
(* _read_table, the fallback reader, and load_ascii_spectrum               *)
(***************************************************************************)
\* float(token) of the cell texts of the model; any other text raises
\* ValueError and the cell stays not-a-number
FloatTexts == ("2" :> 2) @@ ("3" :> 3)

\* a text that is no number read as zero
float_of_zero(token) == IF token \in DOMAIN FloatTexts THEN Num(FloatTexts[token]) ELSE Num(0)

float_of(token) == IF token \in DOMAIN FloatTexts THEN Num(FloatTexts[token]) ELSE NaN

\* the array _process_fallback_chunk fills from the rows
ParseRows(rows, num_cols) ==
    [r \in 1..Len(rows) |->
        [c \in 1..num_cols |-> IF c <= Len(rows[r]) THEN float_of(rows[r][c]) ELSE NaN]]

\* _process_fallback_chunk(rows, columns, accumulator) with the draws
process_fallback_chunk(rows, cols, a, draws) ==
    IF rows = <<>> THEN [a |-> a, ok |-> draws = <<>>]
    ELSE ProcessChunk(a, ParseRows(rows, Len(cols)), cols, draws)

\* any(any(c.isalpha() for c in token) for token in first_tokens)
HasHeader(first_tokens) ==
    \E i \in 1..Len(first_tokens) :
        \E j \in 1..Len(first_tokens[i]) : IsAlpha(Ch(first_tokens[i], j))

\* [f"col{i}" for i in range(len(first_tokens))]
DefaultColumns(first_tokens) == [i \in 1..Len(first_tokens) |-> "col" \o Str(i - 1)]

NO_DATA_ROWS == "No data rows detected in ASCII spectrum"
NO_NUMERIC_COLUMNS == "No numeric columns detected in ASCII spectrum"
NOT_MONOTONIC == "Spectral axis must be strictly increasing or decreasing."
UNIT_CONVERSION_ERROR == "UnitConversionError"

Raised(error) == [kind |-> "error", error |-> error]

\* header lines of the sources of the model
Headers ==
    { <<"wavelength (Angstrom)", "flux (Jy)">>,
      <<"lambda (nm)", "Intensity (W/(nm m2))">>,
      <<"wavelength", "flux">>,
      <<"wavelength (Hz)", "flux (Jy)">>,
      <<"wavelength_nm", "power (W)">>,
      <<"flux (mJy)", "wl [um]">>,
      <<"wavelength", "flux", "err">> }

\* the data lines of the sources of the model, split into cells: equal and
\* distinct wavelengths, cells that are no number in either column or in
\* both, and a line of three cells
DataLines ==
    { <<"2", "2">>, <<"2", "3">>, <<"3", "2">>,
      <<"abc", "3">>, <<"2", "abc">>, <<"abc", "abc">>,
      <<"2", "abc", "3">> }

\* a first line that is data: the reader takes a line with a letter in it
\* for the header
FirstDataLines == {row \in DataLines : ~HasHeader(row)}

InitLoad ==
    /\ acc = NoOut
    /\ hist = <<>>
    /\ nchunks = 0
    /\ out = NoOut
    /\ pc = "idle"
    /\ columns = <<>>
    /\ chunk_rows = <<>>
    /\ lines = [noise |-> 0, header |-> <<>>, rows |-> <<>>]
    /\ table = NoOut
    /\ result = NoOut
    /\ call = NoOut
    /\ jobs = NoOut
    /\ mast = NoOut

\* _iter_clean_lines drops a blank line or a '#' comment; lines.noise counts
\* the lines dropped since the last clean line
SkipLine ==
    /\ pc \in {"idle", "reading"}
    /\ lines.noise < MaxNoise
    /\ lines' = [lines EXCEPT !.noise = @ + 1]
    /\ UNCHANGED <<acc, hist, nchunks, out, pc, columns, chunk_rows, table, result, call, jobs, mast>>

\* the stream ends before any clean line: next(cleaned_lines) raises
EmptySource ==
    /\ pc = "idle"
    /\ pc' = "failed"
    /\ result' = Raised(NO_DATA_ROWS)
    /\ UNCHANGED <<acc, hist, nchunks, out, columns, chunk_rows, lines, table, call, jobs, mast>>

\* the first clean line: header detection, column names, the accumulator
FirstLine(first_tokens) ==
    /\ pc = "idle"
    /\ LET has_header == HasHeader(first_tokens)
           cols == IF has_header THEN first_tokens ELSE DefaultColumns(first_tokens)
       IN  /\ columns' = cols
           /\ chunk_rows' = IF has_header THEN <<>> ELSE <<first_tokens>>
           /\ acc' = NewChunkAccumulator(cols)
    /\ pc' = "reading"
    /\ UNCHANGED <<hist, nchunks, out, table, result, call, jobs, mast>>

ReadHeader ==
    \E header \in Headers :
        /\ FirstLine(header)
        /\ lines' = [lines EXCEPT !.header = header, !.noise = 0]

ReadFirstRow ==
    \E row \in FirstDataLines :
        /\ FirstLine(row)
        /\ lines' = [lines EXCEPT !.rows = <<row>>, !.noise = 0]

\* ReadLine handing the chunk over only once it holds more than CHUNK_SIZE rows
ReadLine_late ==
    /\ pc = "reading"
    /\ Len(lines.rows) < MaxRows
    /\ \E row \in DataLines :
         LET rows == Append(chunk_rows, row)
         IN  /\ lines' = [lines EXCEPT !.rows = Append(@, row), !.noise = 0]
             /\ IF Len(rows) > CHUNK_SIZE
                THEN \E draws \in DrawsFor(acc, ParseRows(rows, Len(columns)), columns) :
                        LET p == process_fallback_chunk(rows, columns, acc, draws)
                        IN  /\ p.ok
                            /\ acc' = p.a
                            /\ chunk_rows' = <<>>
                            /\ hist' = hist \o ParseRows(rows, Len(columns))
                            /\ nchunks' = nchunks + 1
                ELSE /\ chunk_rows' = rows
                     /\ UNCHANGED <<acc, hist, nchunks>>
    /\ UNCHANGED <<out, pc, columns, table, result, call, jobs, mast>>

\* one more clean line: appended to the chunk, which is processed when full
ReadLine ==
    /\ pc = "reading"
    /\ Len(lines.rows) < MaxRows
    /\ \E row \in DataLines :
         LET rows == Append(chunk_rows, row)
         IN  /\ lines' = [lines EXCEPT !.rows = Append(@, row), !.noise = 0]
             /\ IF Len(rows) >= CHUNK_SIZE
                THEN \E draws \in DrawsFor(acc, ParseRows(rows, Len(columns)), columns) :
                        LET p == process_fallback_chunk(rows, columns, acc, draws)
                        IN  /\ p.ok
                            /\ acc' = p.a
                            /\ chunk_rows' = <<>>
                            /\ hist' = hist \o ParseRows(rows, Len(columns))
                            /\ nchunks' = nchunks + 1
                ELSE /\ chunk_rows' = rows
                     /\ UNCHANGED <<acc, hist, nchunks>>
    /\ UNCHANGED <<out, pc, columns, table, result, call, jobs, mast>>

\* the end of the stream: the last chunk, finalize(), the checks and the
\* warning; table.source is "in-memory"
EndOfStream ==
    /\ pc = "reading"
    /\ \E draws \in DrawsFor(acc, ParseRows(chunk_rows, Len(columns)), columns) :
         LET p == process_fallback_chunk(chunk_rows, columns, acc, draws)
             f == Finalize(p.a)
         IN  /\ p.ok
             /\ acc' = f.a
             /\ hist' = hist \o ParseRows(chunk_rows, Len(columns))
             /\ nchunks' = IF chunk_rows # <<>> THEN nchunks + 1 ELSE nchunks
             /\ IF DOMAIN f.ret.column_data = {}
                THEN /\ pc' = "failed"
                     /\ result' = Raised(NO_NUMERIC_COLUMNS)
                     /\ table' = table
                ELSE /\ pc' = "table"
                     /\ result' = result
                     /\ table' = [columns   |-> f.ret.column_data,
                                  keys      |-> f.ret.kept,
                                  warning   |-> f.ret.skipped_columns,
                                  analytics |-> [column_statistics |-> f.ret.stats,
                                                 reservoirs        |-> f.ret.reservoirs,
                                                 row_count         |-> f.ret.row_count]]
    /\ chunk_rows' = <<>>
    /\ lines' = [lines EXCEPT !.noise = 0]
    /\ UNCHANGED <<out, columns, call, jobs, mast>>

\* the keys of a mapping over tier sizes, ascending
RECURSIVE SortedSizes(_)
SortedSizes(S) ==
    IF S = {} THEN <<>>
    ELSE LET least == CHOOSE x \in S : \A y \in S : x <= y
         IN  <<least>> \o SortedSizes(S \ {least})

\* ",".join(str(size) for size in sizes)
RECURSIVE CommaJoin(_)
CommaJoin(sizes) ==
    IF sizes = <<>> THEN ""
    ELSE IF Len(sizes) = 1 THEN Str(sizes[1])
    ELSE Str(sizes[1]) \o "," \o CommaJoin(Tail(sizes))

\* NormalizeAxis that sorts the wavelengths and leaves the flux in input order
NormalizeAxis_flux_in_place(wave_values, flux_values, order) ==
    IF Len(wave_values) <= 1
    THEN [ok |-> TRUE, wave |-> wave_values, flux |-> flux_values]
    ELSE LET sorted_waves == Take(wave_values, order)
             unique_waves == UniqueSorted(sorted_waves)
             inverse == Inverse(sorted_waves, unique_waves)
             counts == [g \in 1..Len(unique_waves) |->
                          Cardinality({i \in 1..Len(inverse) : inverse[i] = g})]
             averaged_flux == [g \in 1..Len(unique_waves) |->
                                 FltDiv(AddAt(Num(0), flux_values, inverse, g), counts[g])]
             merged == Len(unique_waves) # Len(sorted_waves)
             waves == IF merged THEN unique_waves ELSE sorted_waves
         IN  [ok   |-> ~AnyDiffNonPositive(waves),
              wave |-> waves,
              flux |-> IF merged THEN averaged_flux ELSE flux_values]

\* the sort, the duplicate merge and the check of the spectral axis:
\* [ok, wave: the canonical wavelengths, flux: the flux values]
NormalizeAxis(wave_values, flux_values, order) ==
    IF Len(wave_values) <= 1
    THEN [ok |-> TRUE, wave |-> wave_values, flux |-> flux_values]
    ELSE LET sorted_waves == Take(wave_values, order)
             sorted_flux == Take(flux_values, order)
             unique_waves == UniqueSorted(sorted_waves)
             inverse == Inverse(sorted_waves, unique_waves)
             counts == [g \in 1..Len(unique_waves) |->
                          Cardinality({i \in 1..Len(inverse) : inverse[i] = g})]
             averaged_flux == [g \in 1..Len(unique_waves) |->
                                 FltDiv(AddAt(Num(0), sorted_flux, inverse, g), counts[g])]
             merged == Len(unique_waves) # Len(sorted_waves)
             waves == IF merged THEN unique_waves ELSE sorted_waves
         IN  [ok   |-> ~AnyDiffNonPositive(waves),
              wave |-> waves,
              flux |-> IF merged THEN averaged_flux ELSE sorted_flux]

\* the preview of one reservoir tier: the rows that hold both columns
TierSamples(rows, wave_col, flux_col) ==
    LET have == SelectSeq(rows, LAMBDA row : wave_col \in DOMAIN row /\ flux_col \in DOMAIN row)
    IN  [wave |-> [i \in 1..Len(have) |-> Num(have[i][wave_col])],
         flux |-> [i \in 1..Len(have) |-> Num(have[i][flux_col])]]

\* downsampled: the converted preview of every tier that has samples
Downsampled(reservoirs, wave_col, flux_col, wave_unit, flux_unit) ==
    LET samples == [size \in DOMAIN reservoirs |->
                      TierSamples(reservoirs[size], wave_col, flux_col)]
        sizes == {size \in DOMAIN reservoirs : samples[size].wave # <<>>}
    IN  [size \in sizes |->
            LET sample_wavelengths ==
                    ConvertValues(samples[size].wave, wave_unit, CANONICAL_WAVELENGTH_UNIT)
            IN  [wavelength |-> sample_wavelengths,
                 flux |-> FluxToCanonical(samples[size].flux, flux_unit,
                                          sample_wavelengths).value]]

\* infer_unit_from_label(label) or default
UnitOr(label, default) ==
    LET inferred == infer_unit_from_label(label)
    IN  IF inferred # NoUnit THEN inferred ELSE default

\* the label taken to be the canonical unit whatever the flux carries
FluxUnitLabel_canonical(unit) == to_string(CANONICAL_FLUX_UNIT)

\* flux_unit_label of the unit the converted flux carries
FluxUnitLabel(unit) ==
    LET unit_string == to_string(unit)
    IN  IF unit_string \in {"", "1"} THEN "dimensionless" ELSE unit_string

\* the extra metadata that lists every tier of the reservoir, attached or not
Extra_every_tier(wave_col, flux_col, wave_unit, flux_unit_label, analytics, sizes) ==
    ("downsample_tiers" :> CommaJoin(SortedSizes(TierSizes))) @@
    (IF DOMAIN analytics.column_statistics # {}
     THEN ("column_statistics" :> analytics.column_statistics) ELSE <<>>) @@
    ("wave_column" :> wave_col) @@ ("flux_column" :> flux_col) @@
    ("wavelength_unit" :> to_string(wave_unit)) @@
    ("flux_unit" :> flux_unit_label) @@
    ("row_count" :> Str(analytics.row_count))

\* the extra metadata of the record
Extra(wave_col, flux_col, wave_unit, flux_unit_label, analytics, sizes) ==
    (IF sizes # {} THEN ("downsample_tiers" :> CommaJoin(SortedSizes(sizes))) ELSE <<>>) @@
    (IF DOMAIN analytics.column_statistics # {}
     THEN ("column_statistics" :> analytics.column_statistics) ELSE <<>>) @@
    ("wave_column" :> wave_col) @@ ("flux_column" :> flux_col) @@
    ("wavelength_unit" :> to_string(wave_unit)) @@
    ("flux_unit" :> flux_unit_label) @@
    ("row_count" :> Str(analytics.row_count))

\* the record built from the normalized axis, the converted flux and the tiers
SpectrumRecord(wave_col, flux_col, wave_unit, axis, canonical_flux, analytics, downsampled) ==
    [kind     |-> "record",
     spectrum |-> [spectral_axis |-> [unit |-> CANONICAL_WAVELENGTH_UNIT, value |-> axis.wave],
                   flux |-> canonical_flux,
                   meta |-> [downsampled_tiers |-> downsampled]],
     metadata |-> [source |-> "in-memory", description |-> "ASCII spectrum",
                   extra |-> Extra(wave_col, flux_col, wave_unit,
                                   FluxUnitLabel(canonical_flux.unit), analytics,
                                   DOMAIN downsampled)]]

\* the spectral axis and the flux after the sort and the duplicate merge,
\* for each order the sort can return
AxesOf(t, wave_col, flux_col, wave_unit) ==
    LET wave_values == ConvertValues(t.columns[wave_col], wave_unit, CANONICAL_WAVELENGTH_UNIT)
    IN  {NormalizeAxis(wave_values, t.columns[flux_col], order) : order \in ArgSort(wave_values)}

\* load_ascii_spectrum once the columns and their units are chosen
LoadColumns(t, wave_col, flux_col, wave_unit, flux_unit, axis, accepted) ==
    IF ~SameDimension(wave_unit, CANONICAL_WAVELENGTH_UNIT)
    THEN Raised(UNIT_CONVERSION_ERROR)
    ELSE IF ~axis.ok \/ ~accepted THEN Raised(NOT_MONOTONIC)
    ELSE SpectrumRecord(wave_col, flux_col, wave_unit, axis,
                        FluxToCanonical(axis.flux, flux_unit, axis.wave), t.analytics,
                        Downsampled(t.analytics.reservoirs, wave_col, flux_col,
                                    wave_unit, flux_unit))

\* Spectrum(flux=..., spectral_axis=...) of specutils validates the axis it
\* is given: an axis that is strictly increasing is accepted; whether it
\* accepts any other axis is not decided by this repository
SpectrumAccepts(axis) ==
    IF \A i \in 1..(Len(axis) - 1) :
          IsFinite(axis[i]) /\ IsFinite(axis[i + 1]) /\ axis[i].v < axis[i + 1].v
    THEN {TRUE}
    ELSE {TRUE, FALSE}

\* load_ascii_spectrum after _read_table returned the table t: the records
\* it can return and the exceptions it can raise
LoadRecords(t) ==
    LET sel == select_columns(t.keys)
        wave_unit == UnitOr(sel[1], CANONICAL_WAVELENGTH_UNIT)
        flux_unit == UnitOr(sel[2], CANONICAL_FLUX_UNIT)
    IN  UNION {{LoadColumns(t, sel[1], sel[2], wave_unit, flux_unit, axis, accepted) :
                    accepted \in SpectrumAccepts(axis.wave)} :
                 axis \in AxesOf(t, sel[1], sel[2], wave_unit)}

LoadSpectrum ==
    /\ pc = "table"
    /\ \E record \in LoadRecords(table) :
         /\ result' = record
         /\ pc' = IF record.kind = "record" THEN "done" ELSE "failed"
    /\ UNCHANGED <<acc, hist, nchunks, out, columns, chunk_rows, lines, table, call, jobs, mast>>

NextLoad ==
    \/ SkipLine
    \/ EmptySource
    \/ ReadHeader
    \/ ReadFirstRow
    \/ ReadLine
    \/ EndOfStream
    \/ LoadSpectrum

Spec == InitLoad /\ [][NextLoad]_vars


NextAcc == AccProcessChunk \/ AccFinalize

SpecAcc == InitAcc /\ [][NextAcc]_vars

\* no accumulator and no load in progress
NoLoad ==
    /\ acc = NoOut
    /\ hist = <<>>
    /\ nchunks = 0
    /\ out = NoOut
    /\ pc = "idle"
    /\ columns = <<>>
    /\ chunk_rows = <<>>
    /\ lines = [noise |-> 0, header |-> <<>>, rows |-> <<>>]
    /\ table = NoOut
    /\ result = NoOut

loadvars == <<acc, hist, nchunks, out, pc, columns, chunk_rows, lines, table, result>>

(***************************************************************************)
(* SpecJobs: two ingestions whose chunks are processed interleaved.  Each  *)
(* _read_table call builds a ChunkAccumulator, which builds a RowReservoir,*)
(* which builds np.random.default_rng(seed) with seed = 0.  What the       *)
(* generator of seed 0 returns at its k-th call is not known to the model: *)
(* jobs.stream[k][n] is the value of the k-th call when it is              *)
(* integers(0, n), chosen when a generator first reaches position k and    *)
(* the same for every generator of that seed.                              *)
(***************************************************************************)
\* one generator for every ingestion
GeneratorOf_shared(j) == 1

\* the generator job j draws from: self._rng of its own reservoir
GeneratorOf(j) == j

\* the rows of the next chunk of an input, from row next on
NextChunk(input, next) == SubSeq(input, next, Min2(next + CHUNK_SIZE - 1, Len(input)))

\* the inputs of an ingestion: MaxRows rows with both cells finite, and the
\* same with the second row lacking its wavelength
InitJobs ==
    /\ NoLoad
    /\ call = NoOut
    /\ mast = NoOut
    /\ \E inputs \in
            [1..2 ->
               LET complete == << <<Num(2), Num(2)>>, <<Num(2), Num(3)>>, <<Num(3), Num(2)>> >>
               IN  {[i \in 1..MaxRows |-> complete[((i + k) % 3) + 1]] : k \in 0..1}
                   \cup {[i \in 1..MaxRows |->
                            IF i = 2 THEN <<NaN, Num(3)>> ELSE complete[(i % 3) + 1]]}] :
         jobs = [stream |-> <<>>,
                 pos    |-> [g \in 1..2 |-> 0],
                 job    |-> [j \in 1..2 |->
                               [input |-> inputs[j], next |-> 1,
                                acc |-> NewChunkAccumulator(AccColumns), ret |-> NoOut]]]

\* job j hands its next chunk to process_chunk; a generator that reaches a
\* position for the first time fixes what the call at that position returns
\* for each bound
JobProcessChunk(j) ==
    LET job == jobs.job[j]
        g == GeneratorOf(j)
        chunk == NextChunk(job.input, job.next)
        b == DrawBounds(job.acc.reservoir.total_seen, Offered(chunk, AccColumns), 1, 1)
        reached == (jobs.pos[g] + 1)..(jobs.pos[g] + Len(b))
    IN  /\ job.next <= Len(job.input)
        /\ \E first \in [reached \ DOMAIN jobs.stream ->
                            {f \in [1..MaxRows -> 0..(MaxRows - 1)] :
                                \A n \in 1..MaxRows : f[n] < n}] :
             LET stream == first @@ jobs.stream
                 p == ProcessChunk(job.acc, chunk, AccColumns,
                                   [i \in 1..Len(b) |-> stream[jobs.pos[g] + i][b[i]]])
             IN  /\ p.ok
                 /\ jobs' = [jobs EXCEPT !.stream = stream,
                                         !.pos[g] = @ + Len(b),
                                         !.job[j].acc = p.a,
                                         !.job[j].next = @ + Len(chunk)]
        /\ UNCHANGED <<loadvars, call, mast>>

\* job j has read its input and calls finalize()
JobFinalize(j) ==
    LET job == jobs.job[j]
        f == Finalize(job.acc)
    IN  /\ job.next > Len(job.input)
        /\ job.ret = NoOut
        /\ jobs' = [jobs EXCEPT !.job[j].acc = f.a,
                                !.job[j].ret = f.ret]
        /\ UNCHANGED <<loadvars, call, mast>>

NextJobs ==
    \/ \E j \in 1..2 : JobProcessChunk(j)
    \/ \E j \in 1..2 : JobFinalize(j)

SpecJobs == InitJobs /\ [][NextJobs]_vars

(***************************************************************************)
(* Properties of the accumulator (SpecAcc)                                 *)
(***************************************************************************)
\* what finalize() returns when the rows are fed as one chunk to a fresh
\* accumulator
OneChunk(rows) ==
    LET fresh == NewChunkAccumulator(AccColumns)
        draws == CHOOSE d \in DrawsFor(fresh, rows, AccColumns) : TRUE
    IN  Finalize(ProcessChunk(fresh, rows, AccColumns, draws).a).ret

\* the part of the per-column statistics that no rounding enters
ExactStats(stats) ==
    [c \in DOMAIN stats |->
        [count |-> stats[c].count, min |-> stats[c].min, max |-> stats[c].max]]

IsNumberText(text) == text \in DOMAIN FloatTexts

\* the columns of the source that hold a number in some data line
NumericColumns ==
    {columns[c] : c \in {c \in 1..Len(columns) :
                           \E r \in 1..Len(lines.rows) :
                               c <= Len(lines.rows[r]) /\ IsNumberText(lines.rows[r][c])}}

Returned == pc = "done"
ExtraOf(key) == result.metadata.extra[key]
AxisValues == result.spectrum.spectral_axis.value
FluxValues == result.spectrum.flux.value

InWave == table.columns[ExtraOf("wave_column")]
InFlux == table.columns[ExtraOf("flux_column")]
InWaveUnit == UnitOr(ExtraOf("wave_column"), CANONICAL_WAVELENGTH_UNIT)
InFluxUnit == UnitOr(ExtraOf("flux_column"), CANONICAL_FLUX_UNIT)

\* the rows whose wavelength is that of row i
GroupOf(i) == {j \in 1..Len(InWave) : InWave[j] = InWave[i]}

\* the floating-point sums of the flux of the rows G, added in any order
OrderSums(G) ==
    {FSum([k \in 1..Cardinality(G) |-> InFlux[order[k]].v]) :
        order \in {o \in [1..Cardinality(G) -> G] :
                     \A a, b \in 1..Cardinality(G) : a # b => o[a] # o[b]}}

\* the means of the flux of the rows G: a sum divided by their number
MeansOf(G) ==
    IF \E j \in G : ~IsFinite(InFlux[j]) THEN {NaN}
    ELSE {[k |-> "fin", v |-> sum, d |-> Cardinality(G), x |-> 0, cx |-> 0] :
            sum \in OrderSums(G)}

\* C4: a returned record has one point for each distinct finite wavelength
\* of the input, at that wavelength in nm, whose flux is the mean of the
\* flux of the rows that share it, converted as any flux is; axis and flux
\* have the same length
C4_DuplicatesAveraged ==
    Returned =>
        /\ Len(AxisValues) = Len(FluxValues)
        /\ \A i \in 1..Len(InWave) :
             IsFinite(InWave[i]) =>
                LET at == ConvertValues(<<InWave[i]>>, InWaveUnit, CANONICAL_WAVELENGTH_UNIT)[1]
                    points == {p \in 1..Len(AxisValues) : AxisValues[p] = at}
                IN  /\ Cardinality(points) = 1
                    /\ \A p \in points :
                         FluxValues[p] \in
                            {FluxToCanonical(<<mean>>, InFluxUnit, <<at>>).value[1] :
                                mean \in MeansOf(GroupOf(i))}
        /\ \A p \in 1..Len(AxisValues) :
             IsFinite(AxisValues[p]) =>
                \E i \in 1..Len(InWave) :
                    AxisValues[p] =
                        ConvertValues(<<InWave[i]>>, InWaveUnit, CANONICAL_WAVELENGTH_UNIT)[1]

\* a record of three rows, two of which share a wavelength and differ in flux
C4_Witness ==
    /\ Returned
    /\ Len(InWave) = 3
    /\ Len(AxisValues) = 2
    /\ \E i, j \in 1..3 :
          /\ i # j
          /\ IsFinite(InWave[i]) /\ InWave[i] = InWave[j]
          /\ IsFinite(InFlux[i]) /\ IsFinite(InFlux[j]) /\ InFlux[i] # InFlux[j]

\* C5 as stated: a source without data lines, one that holds only a header
\* included, fails with the empty-input error
C5_EmptyInput ==
    (pc \in {"table", "done", "failed"} /\ lines.rows = <<>>) =>
        pc = "failed" /\ result = Raised(NO_DATA_ROWS)

\* C6: a source with a data line and no number in any cell fails with the
\* no-numeric-columns error, and a record is returned only of a source with
\* a numeric column
C6_NoNumericColumns ==
    /\ (pc \in {"table", "done", "failed"} /\ lines.rows # <<>> /\ NumericColumns = {}) =>
            pc = "failed" /\ result = Raised(NO_NUMERIC_COLUMNS)
    /\ Returned => NumericColumns # {}

\* a failed load of a source of two data lines without any number
C6_Witness ==
    /\ pc = "failed"
    /\ Len(lines.rows) = 2
    /\ NumericColumns = {}
    /\ result = Raised(NO_NUMERIC_COLUMNS)

\* C7: the table the reader returns holds exactly the columns with a number
\* in some data line, the warning names exactly the others, no column is in
\* both, and the record's wavelength and flux columns are retained ones
C7_RetainedOrSkipped ==
    pc \in {"table", "done"} =>
        /\ ColSet(table.keys) = NumericColumns
        /\ DOMAIN table.columns = NumericColumns
        /\ ColSet(table.warning) = ColSet(columns) \ NumericColumns
        /\ ColSet(table.keys) \cap ColSet(table.warning) = {}
        /\ Returned => {ExtraOf("wave_column"), ExtraOf("flux_column")} \subseteq NumericColumns

\* a record of a source read in two chunks, one column of which never held
\* a number and is named by the warning
C7_Witness ==
    /\ Returned
    /\ nchunks = 2
    /\ Len(table.warning) = 1
    /\ Len(table.keys) = 1

\* the flux units that convert to Jy, directly or through the
\* spectral-density equivalency
ConvertsToJy(unit) == SameDimension(unit, CANONICAL_FLUX_UNIT) \/ IsFLambda(unit) \/ IsNuFNu(unit)

\* C8: the flux of a returned record is in Jy when the unit of the flux
\* label converts to Jy, directly or by spectral density, and in the unit of
\* the label otherwise; extra['flux_unit'] names the unit the flux carries;
\* a load that fails on a unit conversion fails on the wavelength's
C8_FluxConversion ==
    /\ Returned =>
          /\ result.spectrum.flux.unit =
                IF ConvertsToJy(InFluxUnit) THEN CANONICAL_FLUX_UNIT ELSE InFluxUnit
          /\ ExtraOf("flux_unit") = to_string(result.spectrum.flux.unit)
    /\ (pc = "failed" /\ result = Raised(UNIT_CONVERSION_ERROR)) =>
          ~SameDimension(UnitOr(select_columns(table.keys)[1], CANONICAL_WAVELENGTH_UNIT),
                         CANONICAL_WAVELENGTH_UNIT)

\* a record whose flux neither conversion applies to, left in watts
C8_Witness ==
    /\ Returned
    /\ result.spectrum.flux.unit = u_W
    /\ ExtraOf("flux_unit") = "W"

\* C9 as stated: no load fails on a unit; the failures are those of parsing
\* and shape
C9_UnitsNeverFatal ==
    pc = "failed" => result.error \in {NO_DATA_ROWS, NO_NUMERIC_COLUMNS, NOT_MONOTONIC}

\* the tiers attached to the returned spectrum
TiersOf == result.spectrum.meta.downsampled_tiers

\* C10: every tier attached to a returned spectrum has at most as many
\* points as its capacity, and as many wavelengths as flux values
C10_TierCapacity ==
    Returned =>
        \A size \in DOMAIN TiersOf :
            /\ Len(TiersOf[size].wavelength) <= size
            /\ Len(TiersOf[size].wavelength) = Len(TiersOf[size].flux)

\* a record of three complete rows: more rows than the two smaller tiers hold
C10_Witness ==
    /\ Returned
    /\ DOMAIN TiersOf = TierSizes
    /\ \A size \in TierSizes : Len(TiersOf[size].wavelength) = size
    /\ Len(lines.rows) > DOWNSAMPLE_TIERS[2]

(***************************************************************************)
(* Properties of the reservoir (SpecAcc)                                   *)
(***************************************************************************)
\* the rows of hist that process_chunk offered to the reservoir, in order
RECURSIVE OfferedRows(_)
OfferedRows(rows) ==
    IF rows = <<>> THEN <<>>
    ELSE LET row_dict == RowDict(Head(rows), AccColumns)
         IN  (IF Cardinality(DOMAIN row_dict) >= 2 THEN <<row_dict>> ELSE <<>>)
                \o OfferedRows(Tail(rows))

\* n rows told apart by their position in the stream
NumberedRows(n) == [i \in 1..n |-> [row |-> i]]

\* the draw sequences of offering n rows to a new reservoir; each draw is
\* uniform on its range, so the sequences are equally likely
DrawSeqs(n) ==
    LET b == DrawBounds(0, n, 1, 1)
    IN  {d \in [1..Len(b) -> 0..(n - 1)] : \A i \in 1..Len(b) : d[i] < b[i]}

RECURSIVE AddAll(_, _, _)
AddAll(st, rows, i) ==
    IF i > Len(rows) THEN st
    ELSE AddAll(RowReservoir_add(st, rows[i]), rows, i + 1)

\* the tiers after n numbered rows were offered one by one under draws d
TiersAfter(n, d) ==
    RowReservoir_export(AddAll([r |-> NewRowReservoir, d |-> d, ok |-> TRUE],
                               NumberedRows(n), 1).r)

\* the positions in the stream of the rows a bucket holds
Positions(bucket) == {bucket[s].row : s \in 1..Len(bucket)}

\* C11: after n rows were offered, in whatever chunks, a tier of capacity k
\* holds all of them in order when n <= k; otherwise each offered row is in
\* the tier under the fraction k/n of the equally likely draw sequences,
\* every k-subset of the rows is the content under some draws, and the tier
\* reached is one of those contents
C11_UniformSample ==
    LET n == acc.reservoir.total_seen
        offered == OfferedRows(hist)
    IN  /\ n = Len(offered)
        /\ \A size \in TierSizes :
             LET bucket == acc.reservoir.tiers[size]
             IN  IF n <= size
                 THEN bucket = offered
                 ELSE /\ \A i \in 1..n :
                           Cardinality({d \in DrawSeqs(n) :
                                          i \in Positions(TiersAfter(n, d)[size])}) * n
                              = size * Cardinality(DrawSeqs(n))
                      /\ \A S \in SUBSET (1..n) :
                           Cardinality(S) = size =>
                              \E d \in DrawSeqs(n) : Positions(TiersAfter(n, d)[size]) = S
                      /\ \E d \in DrawSeqs(n) :
                           LET sample == TiersAfter(n, d)[size]
                           IN  bucket = [s \in 1..Len(sample) |-> offered[sample[s].row]]

\* three distinct rows offered: the tier of one row holds the third, the
\* tier of two holds the third in place of the first, next to the second
C11_Witness ==
    /\ acc.reservoir.total_seen = 3
    /\ Len(hist) = 3
    /\ hist[1] # hist[2] /\ hist[1] # hist[3] /\ hist[2] # hist[3]
    /\ acc.reservoir.tiers[1] = <<RowDict(hist[3], AccColumns)>>
    /\ acc.reservoir.tiers[2] = <<RowDict(hist[3], AccColumns), RowDict(hist[2], AccColumns)>>

(***************************************************************************)
(* Properties of the column statistics (SpecAcc)                           *)
(***************************************************************************)
\* the finite cells of column idx among the rows handed to process_chunk
FiniteCells(idx) == FiniteOf([r \in 1..Len(hist) |-> hist[r][idx]])

RECURSIVE ExactSum(_)
ExactSum(xs) == IF xs = <<>> THEN 0 ELSE Head(xs) + ExactSum(Tail(xs))

\* the cells a column of one chunk can hold
CellValues == {Num(2), Num(3), NaN, PosInf, NegInf}
ColumnChunks == UNION {[1..l -> CellValues] : l \in 1..MaxRows}

\* count, min and max of every column are those of its finite cells, a
\* non-finite cell changes no aggregate, and finalize() reports statistics
\* exactly for the columns with a finite cell
FiniteOnlyStats ==
    /\ \A idx \in 1..Len(AccColumns) :
         LET s == acc.stats[AccColumns[idx]]
             cells == FiniteCells(idx)
         IN  /\ s.count = Len(cells)
             /\ Len(cells) > 0 => s.min = Num(SeqMin(cells)) /\ s.max = Num(SeqMax(cells))
             /\ \A values \in ColumnChunks :
                  ColumnStats_update(s, values) =
                      ColumnStats_update(s, SelectSeq(values, IsFinite))
    /\ out # NoOut =>
          /\ DOMAIN out.stats = {AccColumns[idx] : idx \in {i \in 1..Len(AccColumns) :
                                                            Len(FiniteCells(i)) > 0}}
          /\ \A c \in DOMAIN out.stats :
                /\ out.stats[c].count = acc.stats[c].count
                /\ out.stats[c].min = acc.stats[c].min
                /\ out.stats[c].max = acc.stats[c].max
                /\ out.stats[c].mean = <<acc.stats[c].sum, acc.stats[c].count>>

\* C12 as stated: the statistics are over the finite cells only, and the
\* reported mean of every column lies between its min and its max
C12_AsStated ==
    /\ FiniteOnlyStats
    /\ out # NoOut =>
          \A c \in DOMAIN out.stats :
             /\ out.stats[c].min.v * out.stats[c].mean[2] <= out.stats[c].mean[1]
             /\ out.stats[c].mean[1] <= out.stats[c].max.v * out.stats[c].mean[2]

\* C12, amended: the statistics are over the finite cells only; the reported
\* mean is the running floating-point sum over the count, and lies between
\* min and max whenever that sum is the exact sum of the finite cells
C12_FiniteOnly ==
    /\ FiniteOnlyStats
    /\ out # NoOut =>
          \A idx \in 1..Len(AccColumns) :
             LET c == AccColumns[idx]
             IN  (c \in DOMAIN out.stats /\ out.stats[c].mean[1] = ExactSum(FiniteCells(idx))) =>
                    /\ out.stats[c].min.v * out.stats[c].mean[2] <= out.stats[c].mean[1]
                    /\ out.stats[c].mean[1] <= out.stats[c].max.v * out.stats[c].mean[2]

\* three rows without a wavelength: finalize() reports statistics for the
\* flux alone, with a mean that rounding has put below the minimum
C12_Witness ==
    /\ out # NoOut
    /\ Len(hist) = 3
    /\ DOMAIN out.stats = {"flux"}
    /\ out.stats["flux"].count = 3
    /\ out.stats["flux"].mean[1] < out.stats["flux"].min.v * 3

(***************************************************************************)
(* SpectrumRecord.to_canonical_units                                       *)
(***************************************************************************)
\* to_canonical_units writing flux_unit into the extra mapping of the record
\* itself instead of a copy
to_canonical_units_shared_extra(self) ==
    LET axis == self.spectrum.spectral_axis
        spectral_axis == [unit  |-> CANONICAL_WAVELENGTH_UNIT,
                          value |-> ConvertValues(axis.value, axis.unit, CANONICAL_WAVELENGTH_UNIT)]
        flux == IF SameDimension(self.spectrum.flux.unit, CANONICAL_FLUX_UNIT)
                THEN [unit  |-> CANONICAL_FLUX_UNIT,
                      value |-> ConvertValues(self.spectrum.flux.value, self.spectrum.flux.unit,
                                              CANONICAL_FLUX_UNIT)]
                ELSE self.spectrum.flux
        extra == ("flux_unit" :> FluxUnitLabel(flux.unit)) @@ self.metadata.extra
    IN  [self   |-> [self EXCEPT !.metadata.extra = extra],
         record |-> [identifier |-> self.identifier,
                     spectrum   |-> [spectral_axis |-> spectral_axis, flux |-> flux,
                                     meta |-> [downsampled_tiers |-> <<>>]],
                     metadata   |-> [self.metadata EXCEPT !.extra = extra]]]

\* to_canonical_units(): [self: the record afterwards, record: the record
\* returned].  .to() returns a new quantity, dict() a copy of the extra
\* mapping, replace() a new metadata and Spectrum() a new spectrum without
\* the meta of the old one; no statement writes to self.  The try / except
\* is the test of the flux unit's dimension.
to_canonical_units(self) ==
    LET axis == self.spectrum.spectral_axis
        spectral_axis == [unit  |-> CANONICAL_WAVELENGTH_UNIT,
                          value |-> ConvertValues(axis.value, axis.unit, CANONICAL_WAVELENGTH_UNIT)]
        flux == IF SameDimension(self.spectrum.flux.unit, CANONICAL_FLUX_UNIT)
                THEN [unit  |-> CANONICAL_FLUX_UNIT,
                      value |-> ConvertValues(self.spectrum.flux.value, self.spectrum.flux.unit,
                                              CANONICAL_FLUX_UNIT)]
                ELSE self.spectrum.flux
        extra == ("flux_unit" :> FluxUnitLabel(flux.unit)) @@ self.metadata.extra
    IN  [self   |-> self,
         record |-> [identifier |-> self.identifier,
                     spectrum   |-> [spectral_axis |-> spectral_axis, flux |-> flux,
                                     meta |-> [downsampled_tiers |-> <<>>]],
                     metadata   |-> [self.metadata EXCEPT !.extra = extra]]]

(***************************************************************************)
(* JWSTSpectrumLoader.convert_units / _verify_round_trip                   *)
(***************************************************************************)
\* the largest power of ten of a binary64 value: the greatest is 1.797...e308
FloatMaxExp10 == 308

\* the least power of ten of a binary64 value: the least is 4.94...e-324
FloatMinExp10 == -324

\* a value of one decimal digit times 10^x as binary64: an infinity when it
\* is beyond the range, zero when it is nearer to zero than to the least
\* value
ToFloat64(value) ==
    IF IsFinite(value) /\ value.v # 0
       /\ (value.x > FloatMaxExp10
           \/ (value.x = FloatMaxExp10 /\ (value.v >= 2 * value.d \/ -value.v >= 2 * value.d)))
    THEN IF value.v > 0 THEN PosInf ELSE NegInf
    ELSE IF IsFinite(value) /\ value.v # 0
            /\ (value.x < FloatMinExp10
                \/ (value.x = FloatMinExp10
                    /\ 2 * value.v < 5 * value.d /\ -2 * value.v < 5 * value.d))
    THEN Num(0)
    ELSE value

\* Quantity.to(target).value for units of one dimension
QuantityTo(values, from, target) ==
    LET converted == ConvertValues(values, from, target)
    IN  [i \in 1..Len(values) |-> ToFloat64(converted[i])]

\* np.allclose(a, b, atol=1e-12, rtol=1e-9): equal finite values and equal
\* infinities are close, not-a-number is close to nothing.  The conversions
\* of the model are exact, so two finite values it compares are equal or far
\* apart.
AllClose(a, b) ==
    \A i \in 1..Len(a) : a[i].k # "nan" /\ b[i].k # "nan" /\ a[i] = b[i]

\* _verify_round_trip(spectrum)
verify_round_trip(spectrum) ==
    LET flux_back == QuantityTo(spectrum.flux.value, spectrum.flux.unit, spectrum.flux.unit)
        spectral_back == QuantityTo(spectrum.spectral_axis.value, spectrum.spectral_axis.unit,
                                    spectrum.spectral_axis.unit)
        flux_close == AllClose(flux_back, spectrum.flux.value)
        spectral_close == AllClose(spectral_back, spectrum.spectral_axis.value)
    IN  flux_close /\ spectral_close

\* convert_units(spectrum, flux_unit=..., spectral_axis_unit=...) of a
\* loader with the preferred units given; NoUnit is None
convert_units(preferred_flux_unit, preferred_wave_unit, spectrum, flux_unit_arg, spectral_axis_unit_arg) ==
    LET flux_unit == IF flux_unit_arg # NoUnit THEN flux_unit_arg ELSE preferred_flux_unit
        spectral_axis_unit == IF spectral_axis_unit_arg # NoUnit THEN spectral_axis_unit_arg
                              ELSE preferred_wave_unit
        converted ==
            [flux |-> [unit  |-> flux_unit,
                       value |-> QuantityTo(spectrum.flux.value, spectrum.flux.unit, flux_unit)],
             spectral_axis |-> [unit  |-> spectral_axis_unit,
                                value |-> QuantityTo(spectrum.spectral_axis.value,
                                                     spectrum.spectral_axis.unit,
                                                     spectral_axis_unit)]]
    IN  IF ~SameDimension(spectrum.flux.unit, flux_unit)
           \/ ~SameDimension(spectrum.spectral_axis.unit, spectral_axis_unit)
        THEN Raised(UNIT_CONVERSION_ERROR)
        ELSE [converted |-> converted, verified |-> verify_round_trip(converted)]

(***************************************************************************)
(* compute_ratio (analysis/comparative.py)                                 *)
(***************************************************************************)
\* LinearInterpolatedResampler(extrapolation_treatment="nan_fill"): the flux
\* of the spectrum interpolated linearly at the points of target_axis, which
\* is np.interp with nan to the left and to the right; a point of the
\* spectrum's own axis keeps its flux.  Both axes are in one unit, and the
\* flux values interpolated have d = 1, x = 0.
resample_to(spectrum, target_axis) ==
    LET xp == spectrum.spectral_axis.value
        fp == spectrum.flux.value
        at(x) ==
            IF x.v < xp[1].v \/ x.v > xp[Len(xp)].v THEN NaN
            ELSE LET j == SetMax({i \in 1..Len(xp) : xp[i].v <= x.v})
                 IN  IF xp[j].v = x.v THEN fp[j]
                     ELSE IF ~IsFinite(fp[j]) \/ ~IsFinite(fp[j + 1]) THEN NaN
                     ELSE LET den == xp[j + 1].v - xp[j].v
                              num == fp[j].v * den + (fp[j + 1].v - fp[j].v) * (x.v - xp[j].v)
                          IN  IF num % den = 0 THEN Num(num \div den)
                              ELSE [Num(num) EXCEPT !.d = den]
    IN  [flux |-> [unit |-> spectrum.flux.unit,
                   value |-> [i \in 1..Len(target_axis.value) |-> at(target_axis.value[i])]],
         spectral_axis |-> target_axis]

\* the flux used as it is
safe_flux_unchanged(values, epsilon) == values

\* safe_flux = flux.copy(); safe_flux.value[np.abs(safe_flux.value) < epsilon] = epsilon
\* for values and an epsilon of one decimal digit
safe_flux(values, epsilon) ==
    LET below(value) ==
            /\ IsFinite(value)
            /\ IsFinite(epsilon)
            /\ epsilon.v > 0
            /\ \/ value.v = 0
               \/ value.x < epsilon.x
               \/ /\ value.x = epsilon.x
                  /\ (IF value.v < 0 THEN -value.v ELSE value.v) * epsilon.d < epsilon.v * value.d
    IN  [i \in 1..Len(values) |-> IF below(values[i]) THEN epsilon ELSE values[i]]

\* a / b of binary64 values of one decimal digit: the quotient is kept
\* exact within the range of binary64
Divide(a, b) ==
    IF a.k = "nan" \/ b.k = "nan" THEN NaN
    ELSE IF a.k = "inf" /\ b.k = "inf" THEN NaN
    ELSE IF a.k = "inf" THEN (IF (a.v > 0) = (b.v >= 0) THEN PosInf ELSE NegInf)
    ELSE IF b.k = "inf" THEN Num(0)
    ELSE IF b.v = 0
    THEN (IF a.v = 0 THEN NaN ELSE IF a.v > 0 THEN PosInf ELSE NegInf)
    ELSE IF a.v = 0 THEN Num(0)
    ELSE LET v == IF b.v > 0 THEN a.v * b.d ELSE -(a.v * b.d)
             d == IF b.v > 0 THEN a.d * b.v ELSE -(a.d * b.v)
             m == IF v < 0 THEN -v ELSE v
             x == a.x - b.x
             q == IF m < d THEN [k |-> "fin", v |-> 10 * v, d |-> d, x |-> x - 1, cx |-> 0]
                  ELSE IF m >= 10 * d THEN [k |-> "fin", v |-> v, d |-> 10 * d, x |-> x + 1, cx |-> 0]
                  ELSE [k |-> "fin", v |-> v, d |-> d, x |-> x, cx |-> 0]
         IN  ToFloat64(IF q.v % q.d = 0 THEN [q EXCEPT !.v = q.v \div q.d, !.d = 1] ELSE q)

\* compute_ratio(first, second, identifier, epsilon): the arguments after the
\* call and the record returned; identifier "" is None
compute_ratio(first, second, identifier, epsilon) ==
    LET target_axis == first.spectrum.spectral_axis
        resampled_second == resample_to(second.spectrum, target_axis)
        safe == safe_flux(resampled_second.flux.value, epsilon)
        unit == UnitDiv(first.spectrum.flux.unit, resampled_second.flux.unit)
        quotient == [i \in 1..Len(safe) |-> Divide(first.spectrum.flux.value[i], safe[i])]
        \* .decompose(): the scale of the unit goes into the values
        ratio_flux == [unit  |-> [unit EXCEPT !.e = 0],
                       value |-> [i \in 1..Len(safe) |->
                                    IF IsFinite(quotient[i]) /\ quotient[i].v # 0
                                    THEN ToFloat64([quotient[i] EXCEPT !.x = @ + unit.e])
                                    ELSE quotient[i]]]
        description == "ratio of " \o first.metadata.source \o " and " \o second.metadata.source
        prefixed(prefix, extra) ==
            [name \in {prefix \o key : key \in DOMAIN extra} |->
                extra[CHOOSE key \in DOMAIN extra : prefix \o key = name]]
    IN  [first  |-> first,
         second |-> second,
         record |-> [identifier |-> IF identifier # "" THEN identifier
                                    ELSE first.identifier \o "-over-" \o second.identifier,
                     spectrum   |-> [spectral_axis |->
                                        [unit  |-> CANONICAL_WAVELENGTH_UNIT,
                                         value |-> QuantityTo(target_axis.value, target_axis.unit,
                                                              CANONICAL_WAVELENGTH_UNIT)],
                                     flux |-> ratio_flux],
                     metadata   |-> [source |-> description, description |-> description,
                                     extra |-> prefixed("secondary_", second.metadata.extra) @@
                                               prefixed("primary_", first.metadata.extra) @@
                                               ("operation" :> "ratio") @@
                                               ("primary_source" :> first.metadata.source) @@
                                               ("secondary_source" :> second.metadata.source)]]]

(***************************************************************************)
(* SpecCalls: one function called on its own, on arguments of bounded      *)
(* sets.  call = [fn, args, ret], ret being NoOut until the call returns.  *)
(***************************************************************************)
RECURSIVE JoinWith(_, _)
JoinWith(words, sep) ==
    IF words = <<>> THEN ""
    ELSE IF Len(words) = 1 THEN words[1]
    ELSE words[1] \o sep \o JoinWith(Tail(words), sep)

\* name_w_m2_nm, name (w/m2/nm), name [w m2 nm]
GeneratedLabel(name, words, form) ==
    IF form = "_" THEN JoinWith((IF name = "" THEN <<>> ELSE <<name>>) \o words, "_")
    ELSE IF form = "(" THEN name \o " (" \o JoinWith(words, "/") \o ")"
    ELSE name \o " [" \o JoinWith(words, " ") \o "]"

\* the calls of the model.
\* infer_unit_from_label: on labels of the tests and of tables in the wild
\* whose unit text has an exponent sign, capitals, or is a unit expression
\* only astropy reads; on one whose tokens 'watt', 's' are two units and,
\* concatenated, a keyword; and on the labels generated from the quantity
\* named, if any, and up to MaxUnitWords unit tokens or fillers.
\* _select_columns: on headers that are a candidate exactly, in capitals, or
\* followed by a unit, and headers that match no candidate.
\* to_canonical_units: on records of up to MaxPoints points on an axis in nm
\* or Angstrom, a flux in Jy, in a unit that converts to Jy, or in one that
\* does not, and an extra mapping with or without a flux_unit.
\* convert_units: on spectra of up to MaxPoints points on an axis in micron,
\* a flux in Jy or mJy whose values are ordinary, near the top of the
\* binary64 range, or not a number.
\* compute_ratio: on two records of up to MaxPoints points in Jy or mJy, the
\* first with flux values ordinary, near the top or the bottom of the
\* binary64 range, or not a number; the second on the axis of the first,
\* on one of twice the step, or on one a step further, with flux values
\* zero, positive, negative or not a number; epsilon the default 1e-12, 0, or
\* 1e12; an identifier is given with records of one point.
Calls ==
    {[fn |-> "infer_unit_from_label", args |-> [label |-> label], ret |-> NoOut] :
        label \in
          {"wavelength (Angstrom)", "flux (mJy)", "mJy", "Flux [W/m^2/nm]", "wl [um]",
           "Intensity (W/(nm m2))", "flux (Jy) [nm]", "F_lambda (erg/s/cm2/AA)", "w att s"}
          \cup
          {GeneratedLabel(name, words, form) :
              name \in {"", "irradiance", "wavelength"},
              words \in UNION {[1..n -> {"w", "m2", "nm", "erg", "jy", "m", "s", "per", "watt"}] :
                                  n \in 0..MaxUnitWords},
              form \in {"_", "(", "["}}}
    \cup
    {[fn |-> "_select_columns", args |-> [columns |-> cols], ret |-> NoOut] :
        cols \in UNION {[1..n -> {"wavelength (nm)", "wl [um]", "Wave", "lambda", "flux (Jy)",
                                  "Flux", "counts", "power_w", "x", "y"}] : n \in 1..MaxColumns}}
    \cup
    UNION {
      {[fn |-> "to_canonical_units",
        args |-> [self |->
          [identifier |-> "id",
           spectrum   |-> [spectral_axis |-> [unit |-> axis_unit,
                                              value |-> [i \in 1..n |-> Num(i + 1)]],
                           flux |-> [unit |-> flux_unit, value |-> flux_value],
                           meta |-> [downsampled_tiers |-> loaded.tiers]],
           metadata   |-> [source |-> "in-memory", description |-> "ASCII spectrum",
                           extra |-> loaded.extra]]],
        ret |-> NoOut] :
          axis_unit \in {u_nm, u_AA},
          flux_unit \in {u_Jy, u_mJy, u_W, Unit(1, -1, -3, 9), dimensionless_unscaled},
          flux_value \in [1..n -> {Num(2), NaN}],
          loaded \in
            {[extra |-> <<>>, tiers |-> <<>>],
             [extra |-> ("flux_unit" :> "mJy"), tiers |-> <<>>],
             [extra |-> ("flux_unit" :> "mJy") @@ ("row_count" :> "2"), tiers |-> <<>>],
             [extra |-> ("downsample_tiers" :> "1") @@ ("row_count" :> "2"),
              tiers |-> (1 :> [wavelength |-> <<Num(2)>>, flux |-> <<Num(2)>>])]}} :
      n \in 1..MaxPoints}
    \cup
    UNION {
      {[fn |-> "convert_units",
        args |-> [spectrum |->
                    [flux |-> [unit |-> flux_unit, value |-> flux_value],
                     spectral_axis |-> [unit |-> u_micron, value |-> [i \in 1..n |-> Num(i + 1)]]],
                  flux_unit |-> flux_unit_arg,
                  spectral_axis_unit |-> spectral_axis_unit_arg],
        ret |-> NoOut] :
          flux_unit \in {u_Jy, u_mJy},
          flux_value \in [1..n -> {Num(2), Num(3), [Num(2) EXCEPT !.x = FloatMaxExp10 - 1], NaN}],
          flux_unit_arg \in {NoUnit, u_Jy, u_mJy, u_W},
          spectral_axis_unit_arg \in {NoUnit, u_AA}} :
      n \in 1..MaxPoints}
    \cup
    UNION {
      {[fn |-> "compute_ratio",
        args |-> [first |->
                    [identifier |-> "A",
                     spectrum   |-> [spectral_axis |-> [unit |-> u_nm,
                                                        value |-> [i \in 1..n |-> Num(i + 1)]],
                                     flux |-> [unit |-> u_Jy, value |-> first_flux]],
                     metadata   |-> [source |-> "A", description |-> "test",
                                     extra |-> ("flux_unit" :> "Jy")]],
                  second |->
                    [identifier |-> "B",
                     spectrum   |-> [spectral_axis |-> [unit |-> u_nm, value |-> second_axis],
                                     flux |-> [unit |-> second_unit, value |-> second_flux]],
                     metadata   |-> [source |-> "B", description |-> "test", extra |-> <<>>]],
                  identifier |-> identifier,
                  epsilon |-> epsilon],
        ret |-> NoOut] :
          first_flux \in [1..n -> {Num(2), [Num(2) EXCEPT !.x = FloatMaxExp10 - 1],
                                   [Num(2) EXCEPT !.x = FloatMinExp10 + 4], NaN}],
          second_axis \in {[i \in 1..n |-> Num(i + 1)], [i \in 1..n |-> Num(2 * i)],
                           [i \in 1..n |-> Num(i + 2)]},
          second_unit \in {u_Jy, u_mJy},
          second_flux \in [1..n -> {Num(0), Num(2), Num(-2), NaN}],
          identifier \in IF n = 1 THEN {"", "ratio"} ELSE {""},
          epsilon \in {[Num(1) EXCEPT !.x = -12], Num(0), [Num(1) EXCEPT !.x = 12]}} :
      n \in 1..MaxPoints}
    \cup
    UNION {
      {[fn |-> "process_chunk", args |-> [columns |-> cols, chunk |-> chunk], ret |-> NoOut] :
          cols \in {<<"wavelength", "flux">>, <<"flux", "flux">>},
          chunk \in [1..n -> {<<Num(2), Num(3)>>, <<Num(3), Num(2)>>, <<Num(2), NaN>>}]} :
      n \in 1..CHUNK_SIZE}

InitCalls ==
    /\ NoLoad
    /\ jobs = NoOut
    /\ mast = NoOut
    /\ call \in Calls

InferUnit ==
    /\ call.fn = "infer_unit_from_label"
    /\ call.ret = NoOut
    /\ call' = [call EXCEPT !.ret = infer_unit_from_label(call.args.label)]
    /\ UNCHANGED <<loadvars, jobs, mast>>

SelectColumns ==
    /\ call.fn = "_select_columns"
    /\ call.ret = NoOut
    /\ call' = [call EXCEPT !.ret = select_columns(call.args.columns)]
    /\ UNCHANGED <<loadvars, jobs, mast>>

ToCanonicalUnits ==
    /\ call.fn = "to_canonical_units"
    /\ call.ret = NoOut
    /\ call' = [call EXCEPT !.ret = to_canonical_units(call.args.self)]
    /\ UNCHANGED <<loadvars, jobs, mast>>

\* convert_units of JWSTSpectrumLoader() with its default preferred units
ConvertUnits ==
    /\ call.fn = "convert_units"
    /\ call.ret = NoOut
    /\ call' = [call EXCEPT !.ret = convert_units(u_Jy, u_micron, call.args.spectrum,
                                                  call.args.flux_unit,
                                                  call.args.spectral_axis_unit)]
    /\ UNCHANGED <<loadvars, jobs, mast>>

ComputeRatio ==
    /\ call.fn = "compute_ratio"
    /\ call.ret = NoOut
    /\ call' = [call EXCEPT !.ret = compute_ratio(call.args.first, call.args.second,
                                                  call.args.identifier, call.args.epsilon)]
    /\ UNCHANGED <<loadvars, jobs, mast>>

\* ChunkAccumulator(columns).process_chunk(chunk, columns); the value kept is
\* the accumulator afterwards
FirstChunk ==
    /\ call.fn = "process_chunk"
    /\ call.ret = NoOut
    /\ \E draws \in DrawsFor(NewChunkAccumulator(call.args.columns), call.args.chunk,
                              call.args.columns) :
          LET p == ProcessChunk(NewChunkAccumulator(call.args.columns), call.args.chunk,
                                call.args.columns, draws)
          IN  /\ p.ok
              /\ call' = [call EXCEPT !.ret = p.a]
    /\ UNCHANGED <<loadvars, jobs, mast>>

NextCalls ==
    \/ InferUnit
    \/ SelectColumns
    \/ ToCanonicalUnits
    \/ ConvertUnits
    \/ ComputeRatio
    \/ FirstChunk

SpecCalls == InitCalls /\ [][NextCalls]_vars

(***************************************************************************)
(* Properties of infer_unit_from_label (SpecCalls)                         *)
(***************************************************************************)
\* the pairs <<i, j>> of an opening parenthesis or bracket at i and the
\* first matching closing one at j, with text between them
Groups(label) ==
    {p \in (1..Len(label)) \X (1..Len(label)) :
        /\ p[1] + 1 < p[2]
        /\ \/ /\ Ch(label, p[1]) = "(" /\ Ch(label, p[2]) = ")"
              /\ \A k \in (p[1] + 1)..(p[2] - 1) : Ch(label, k) # ")"
           \/ /\ Ch(label, p[1]) = "[" /\ Ch(label, p[2]) = "]"
              /\ \A k \in (p[1] + 1)..(p[2] - 1) : Ch(label, k) # "]"}

\* the content of the first parentheses or brackets, else the whole label
UnitText(label) ==
    IF Groups(label) = {} THEN Strip(label)
    ELSE LET p == CHOOSE p \in Groups(label) : \A q \in Groups(label) : p[1] <= q[1]
         IN  Strip(SubSeq(label, p[1] + 1, p[2] - 1))

IsRecognized(token) == token \notin {"per", "of", "to", "in", "at"} /\ token \in DOMAIN TOKEN_UNIT_MAP
IsKeyword(token) == token \in DOMAIN UNIT_KEYWORDS

\* the units of the recognized tokens
Recognized(tokens) ==
    LET r == SelectSeq(tokens, IsRecognized) IN [i \in 1..Len(r) |-> TOKEN_UNIT_MAP[r[i]]]

\* the first unit divided by each following unit in order
RECURSIVE Quotient(_)
Quotient(units) ==
    IF Len(units) = 1 THEN units[1]
    ELSE UnitDiv(Quotient(SubSeq(units, 1, Len(units) - 1)), units[Len(units)])

\* infer_unit_from_label has returned
Inferred == call.fn = "infer_unit_from_label" /\ call.ret # NoOut

\* C13: the unit returned for a label is, in this order, the unit of the
\* concatenated tokens of its unit text when that is a keyword; else the
\* first recognized unit divided by each following one when two or more
\* tokens are recognized; else the unit of the first token that is a
\* keyword; else the direct parse of the unit text, which is nothing when it
\* fails; nothing when the text has no token
C13_ResolutionOrder ==
    Inferred =>
        LET text == UnitText(call.args.label)
            tokens == extract_tokens(text)
            keywords == SelectSeq(tokens, IsKeyword)
        IN  call.ret =
               IF tokens = <<>> THEN NoUnit
               ELSE IF IsKeyword(Join(tokens)) THEN UNIT_KEYWORDS[Join(tokens)]
               ELSE IF Len(Recognized(tokens)) >= 2 THEN Quotient(Recognized(tokens))
               ELSE IF keywords # <<>> THEN UNIT_KEYWORDS[keywords[1]]
               ELSE ParseUnit(text)

\* 'w att s': the tokens 'watt' and 's' are two recognized units and their
\* concatenation 'watts' is a keyword: the unit is the watt, not the watt
\* per second
C13_Witness ==
    /\ Inferred
    /\ Len(Recognized(extract_tokens(UnitText(call.args.label)))) >= 2
    /\ IsKeyword(Join(extract_tokens(UnitText(call.args.label))))
    /\ call.ret = u_W

\* the tokens of the label's unit text
TokensOf(label) == extract_tokens(UnitText(label))

\* a power, energy or flux-density token
IsFluxToken(token) == token \in {"w", "erg", "jy"}

\* a token whose unit is a length
IsWavelengthToken(token) == IsRecognized(token) /\ SameDimension(TOKEN_UNIT_MAP[token], u_nm)

\* a label with a single wavelength token yields that wavelength unit
SingleWavelengthToken ==
    LET tokens == TokensOf(call.args.label)
        recognized == SelectSeq(tokens, IsRecognized)
    IN  (Len(recognized) = 1 /\ IsWavelengthToken(recognized[1])) =>
            call.ret = TOKEN_UNIT_MAP[recognized[1]]

\* C14 as stated: for a label with a power, energy or flux-density token
\* next to other unit tokens the unit returned is the compound of all
\* recognized tokens and is no length; a label with a single wavelength
\* token yields that wavelength unit
C14_AsStated ==
    Inferred =>
        LET tokens == TokensOf(call.args.label)
        IN  /\ (Len(SelectSeq(tokens, IsFluxToken)) >= 1 /\ Len(Recognized(tokens)) >= 2) =>
                  /\ call.ret = Quotient(Recognized(tokens))
                  /\ ~SameDimension(call.ret, u_nm)
            /\ SingleWavelengthToken

\* C14, amended: for a label with exactly one power, energy or flux-density
\* token next to other unit tokens the unit returned is the compound of all
\* recognized tokens and is no length; with any number of such tokens it is
\* that compound; a label with a single wavelength token yields that
\* wavelength unit
C14_FluxLabelNotWavelength ==
    Inferred =>
        LET tokens == TokensOf(call.args.label)
        IN  /\ (Len(SelectSeq(tokens, IsFluxToken)) >= 1 /\ Len(Recognized(tokens)) >= 2) =>
                  /\ call.ret = Quotient(Recognized(tokens))
                  /\ Len(SelectSeq(tokens, IsFluxToken)) = 1 => ~SameDimension(call.ret, u_nm)
            /\ SingleWavelengthToken

\* 'irradiance_w_m2_nm' gives the watt per square metre and nanometre
C14_Witness ==
    /\ Inferred
    /\ call.args.label = "irradiance_w_m2_nm"
    /\ call.ret = UnitDiv(UnitDiv(u_W, UnitPow(u_m, 2)), u_nm)
    /\ ~SameDimension(call.ret, u_nm)

(***************************************************************************)
(* Properties of _select_columns (SpecCalls)                               *)
(***************************************************************************)
\* _select_columns has returned
Selected == call.fn = "_select_columns" /\ call.ret # NoOut

\* the header matches the candidate: it is the candidate or begins with it,
\* capitals aside
Matches(col, candidate) == StartsWith(Lower(col), candidate)

\* the columns that match the highest-priority candidate any column matches
BestMatches(cols, priority) ==
    LET hit == {k \in 1..Len(priority) : \E i \in 1..Len(cols) : Matches(cols[i], priority[k])}
    IN  IF hit = {} THEN {}
        ELSE {cols[i] : i \in {i \in 1..Len(cols) :
                                 Matches(cols[i], priority[CHOOSE k \in hit : \A k2 \in hit : k <= k2])}}

\* C15 as stated: each role gets a column matching the highest-priority
\* candidate that any header matches, whatever the order of the columns;
\* when no header matches, the wavelength is the first column and the flux
\* the first remaining one
C15_HighestPriority ==
    Selected =>
        LET cols == call.args.columns
            waves == BestMatches(cols, COLUMN_PRIORITY)
            fluxes == BestMatches(cols, FLUX_PRIORITY)
            rest == SelectSeq(cols, LAMBDA c : c # call.ret[1])
        IN  /\ IF waves # {} THEN call.ret[1] \in waves ELSE call.ret[1] = cols[1]
            /\ IF fluxes # {} THEN call.ret[2] \in fluxes
               ELSE rest # <<>> => call.ret[2] = rest[1]

(***************************************************************************)
(* Properties of to_canonical_units (SpecCalls)                            *)
(***************************************************************************)
\* to_canonical_units has returned
Canonicalized == call.fn = "to_canonical_units" /\ call.ret # NoOut

\* the name of a unit, 'dimensionless' for the unit of a pure number
NameOf(unit) == IF unit = dimensionless_unscaled THEN "dimensionless" ELSE UnitNames[unit]

\* C16: the record to_canonical_units() was called on is afterwards what it
\* was before; the record returned is another one, whose flux is in Jy,
\* converted, when the flux unit converts directly to Jy, and is the
\* original flux otherwise; its extra mapping is that of the original with
\* flux_unit naming the unit of its flux
C16_NewCanonicalRecord ==
    Canonicalized =>
        LET self == call.args.self
            new == call.ret.record
            old_flux == self.spectrum.flux
        IN  /\ call.ret.self = self
            /\ new.spectrum.flux =
                  IF SameDimension(old_flux.unit, CANONICAL_FLUX_UNIT)
                  THEN [unit |-> CANONICAL_FLUX_UNIT,
                        value |-> [i \in 1..Len(old_flux.value) |->
                                     IF IsFinite(old_flux.value[i])
                                     THEN [old_flux.value[i] EXCEPT
                                             !.x = @ + old_flux.unit.e - CANONICAL_FLUX_UNIT.e]
                                     ELSE old_flux.value[i]]]
                  ELSE old_flux
            /\ new.metadata.extra["flux_unit"] = NameOf(new.spectrum.flux.unit)
            /\ DOMAIN new.metadata.extra = DOMAIN self.metadata.extra \cup {"flux_unit"}
            /\ \A key \in DOMAIN self.metadata.extra \ {"flux_unit"} :
                  new.metadata.extra[key] = self.metadata.extra[key]

\* a record with a flux in watts, which do not convert to Jy, and a stale
\* flux_unit: the record returned says 'W', the original still says 'mJy'
C16_Witness ==
    /\ Canonicalized
    /\ call.args.self.spectrum.flux.unit = u_W
    /\ call.args.self.metadata.extra = ("flux_unit" :> "mJy") @@ ("row_count" :> "2")
    /\ call.ret.record.metadata.extra["flux_unit"] = "W"
    /\ call.ret.self.metadata.extra["flux_unit"] = "mJy"
    /\ call.ret.record.spectrum.flux.unit = u_W

(***************************************************************************)
(* Properties of convert_units (SpecCalls)                                 *)
(***************************************************************************)
\* convert_units has returned a spectrum
Converted ==
    call.fn = "convert_units" /\ call.ret # NoOut /\ call.ret # Raised(UNIT_CONVERSION_ERROR)

\* the converted values taken back to the units of the original spectrum
FluxBack ==
    QuantityTo(call.ret.converted.flux.value, call.ret.converted.flux.unit,
               call.args.spectrum.flux.unit)
AxisBack ==
    QuantityTo(call.ret.converted.spectral_axis.value, call.ret.converted.spectral_axis.unit,
               call.args.spectrum.spectral_axis.unit)

\* C17 as stated: convert_units reports the conversion verified exactly when
\* the converted flux and spectral axis, taken back to the original units,
\* match the original values within the tolerance
C17_RoundTripVerified ==
    Converted =>
        (call.ret.verified <=>
            /\ AllClose(FluxBack, call.args.spectrum.flux.value)
            /\ AllClose(AxisBack, call.args.spectrum.spectral_axis.value))

(***************************************************************************)
(* Properties of two interleaved ingestions (SpecJobs)                     *)
(***************************************************************************)
\* what finalize() returns when the input is ingested alone, from row next
\* on, by an accumulator a whose generator is at position pos
RECURSIVE RunAlone(_, _, _, _, _)
RunAlone(a, pos, input, next, stream) ==
    IF next > Len(input) THEN Finalize(a).ret
    ELSE LET chunk == NextChunk(input, next)
             b == DrawBounds(a.reservoir.total_seen, Offered(chunk, AccColumns), 1, 1)
             p == ProcessChunk(a, chunk, AccColumns,
                               [i \in 1..Len(b) |-> stream[pos + i][b[i]]])
         IN  RunAlone(p.a, pos + Len(b), input, next + Len(chunk), stream)

Alone(input) == RunAlone(NewChunkAccumulator(AccColumns), 0, input, 1, jobs.stream)

\* C18: however the chunk processing of the two ingestions was interleaved,
\* an ingestion that has finished returned what it returns when run alone,
\* and two ingestions of the same input returned the same column arrays,
\* statistics and reservoir tiers
C18_NoSharedState ==
    /\ \A j \in 1..2 :
         jobs.job[j].ret # NoOut => jobs.job[j].ret = Alone(jobs.job[j].input)
    /\ (jobs.job[1].ret # NoOut /\ jobs.job[2].ret # NoOut
        /\ jobs.job[1].input = jobs.job[2].input) =>
          /\ jobs.job[1].ret.column_data = jobs.job[2].ret.column_data
          /\ jobs.job[1].ret.stats = jobs.job[2].ret.stats
          /\ jobs.job[1].ret.reservoirs = jobs.job[2].ret.reservoirs

\* two ingestions of the same three rows: the second has finished, with a
\* tier that a draw has overwritten, while the first is between its chunks
C18_Witness ==
    /\ jobs.job[1].ret = NoOut
    /\ jobs.job[1].next = CHUNK_SIZE + 1
    /\ jobs.job[2].ret # NoOut
    /\ jobs.job[1].input = jobs.job[2].input
    /\ jobs.job[2].acc.reservoir.total_seen = 3
    /\ jobs.job[2].ret.reservoirs[1] = <<RowDict(jobs.job[2].input[3], AccColumns)>>

(***************************************************************************)
(* The well-known keys of the extra metadata (Spec)                        *)
(***************************************************************************)
\* the sizes S in ascending order, joined by commas
RECURSIVE TierList(_)
TierList(S) ==
    IF S = {} THEN ""
    ELSE LET greatest == CHOOSE x \in S : \A y \in S : y <= x
             smaller == TierList(S \ {greatest})
         IN  IF smaller = "" THEN Str(greatest) ELSE smaller \o "," \o Str(greatest)

\* the data lines that hold a number in both the wavelength and the flux
\* column of the returned record
LinesWithBoth ==
    {r \in 1..Len(lines.rows) :
        \A key \in {"wave_column", "flux_column"} :
            \E c \in 1..Len(columns) :
                /\ columns[c] = ExtraOf(key)
                /\ c <= Len(lines.rows[r])
                /\ IsNumberText(lines.rows[r][c])}

\* C19 as stated: every returned record carries all seven well-known keys,
\* and downsample_tiers lists the tiers attached to the spectrum
C19_AsStated ==
    Returned =>
        /\ {"wave_column", "flux_column", "wavelength_unit", "flux_unit", "row_count",
            "column_statistics", "downsample_tiers"} \subseteq DOMAIN result.metadata.extra
        /\ ExtraOf("downsample_tiers") = TierList(DOMAIN TiersOf)

\* C19: every returned record carries the six keys wave_column, flux_column,
\* wavelength_unit, flux_unit, row_count and column_statistics; it carries
\* downsample_tiers exactly when some tier is attached to the spectrum as a
\* preview, and then the value is the ascending comma-joined list of exactly
\* the attached tier sizes; no tier is attached when no data line holds a
\* number in both the wavelength and the flux column
C19_WellKnownKeys ==
    Returned =>
        /\ {"wave_column", "flux_column", "wavelength_unit", "flux_unit", "row_count",
            "column_statistics"} \subseteq DOMAIN result.metadata.extra
        /\ "downsample_tiers" \in DOMAIN result.metadata.extra <=> DOMAIN TiersOf # {}
        /\ DOMAIN TiersOf # {} => ExtraOf("downsample_tiers") = TierList(DOMAIN TiersOf)
        /\ LinesWithBoth = {} => DOMAIN TiersOf = {}

\* a record of three columns whose smallest tier holds a row without flux:
\* the two larger tiers are attached and listed
C19_Witness ==
    /\ Returned
    /\ Len(columns) = 3
    /\ DOMAIN TiersOf = {2, 3}
    /\ ExtraOf("downsample_tiers") = "2,3"

\* a record of a source whose flux column holds no number: no tier is
\* attached and the key is absent
C19_NoTiers ==
    /\ Returned
    /\ lines.header = <<"wavelength", "flux">>
    /\ lines.rows = << <<"2", "abc">> >>
    /\ DOMAIN TiersOf = {}
    /\ "downsample_tiers" \notin DOMAIN result.metadata.extra
(***************************************************************************)
(* The ratio of two spectra (SpecCalls)                                    *)
(***************************************************************************)
RatioReturned == call.fn = "compute_ratio" /\ call.ret # NoOut
RatioValues == call.ret.record.spectrum.flux.value
PrimaryValues == call.args.first.spectrum.flux.value

\* the flux of the second spectrum at the points of the first
Resampled == resample_to(call.args.second.spectrum, call.args.first.spectrum.spectral_axis).flux.value

\* |v| < epsilon: a resampled value is zero or between 1 and 10 in magnitude,
\* and epsilon is zero or a power of ten other than 1
Below(v, epsilon) == IsFinite(v) /\ epsilon.v > 0 /\ (v.v = 0 \/ epsilon.x > 0)

\* the denominators the claim names: epsilon for a value below it, the value
\* itself otherwise
Denominator(i) ==
    IF Below(Resampled[i], call.args.epsilon) THEN call.args.epsilon ELSE Resampled[i]

\* the quotient of the primary flux by the denominator, in the decomposed
\* unit of the ratio
ExpectedRatio(i) ==
    LET q == Divide(PrimaryValues[i], Denominator(i))
        scale == call.args.first.spectrum.flux.unit.e - call.args.second.spectrum.flux.unit.e
    IN  IF IsFinite(q) /\ q.v # 0 THEN ToFloat64([q EXCEPT !.x = @ + scale]) ELSE q

\* a point where the resampled second spectrum is zero and the primary flux
\* is positive
ZeroUnderPositive(i) ==
    /\ Resampled[i] = Num(0)
    /\ IsFinite(PrimaryValues[i])
    /\ PrimaryValues[i].v > 0

\* C20 as stated: the ratio is the primary flux over the denominators with
\* the values below epsilon replaced, a zero of the second spectrum under a
\* positive primary flux gives a positive finite ratio, and the records
\* passed are as they were
C20_AsStated ==
    RatioReturned =>
        /\ \A i \in 1..Len(RatioValues) : RatioValues[i] = ExpectedRatio(i)
        /\ \A i \in 1..Len(RatioValues) :
              ZeroUnderPositive(i) => IsFinite(RatioValues[i]) /\ RatioValues[i].v > 0
        /\ call.ret.first = call.args.first
        /\ call.ret.second = call.args.second

\* C20: the ratio is the primary flux over the resampled secondary flux in
\* which every value v with |v| < epsilon is replaced by epsilon and every
\* other value is used unchanged; for a positive epsilon a zero of the
\* resampled secondary flux under a positive primary flux gives a ratio that
\* is never negative and never not-a-number, and that is positive and finite
\* when primary / epsilon, before and after the scale of the units is
\* applied, is within the range of binary64; the records passed are as they
\* were
C20_SafeDenominator ==
    RatioReturned =>
        /\ \A i \in 1..Len(RatioValues) : RatioValues[i] = ExpectedRatio(i)
        /\ \A i \in 1..Len(RatioValues) :
              ZeroUnderPositive(i) /\ call.args.epsilon.v > 0 =>
                 LET e == PrimaryValues[i].x - call.args.epsilon.x
                     scaled == e + call.args.first.spectrum.flux.unit.e
                                 - call.args.second.spectrum.flux.unit.e
                 IN  /\ RatioValues[i].k # "nan"
                     /\ RatioValues[i].v >= 0
                     /\ (e < FloatMaxExp10 /\ e > FloatMinExp10
                         /\ scaled < FloatMaxExp10 /\ scaled > FloatMinExp10)
                           => IsFinite(RatioValues[i]) /\ RatioValues[i].v > 0
        /\ call.ret.first = call.args.first
        /\ call.ret.second = call.args.second

\* a ratio with the default epsilon over a second spectrum without a zero
\* whose interpolation at the second point is zero: the first point is
\* divided by the value itself, the second by epsilon
C20_Witness ==
    /\ RatioReturned
    /\ call.args.epsilon = [Num(1) EXCEPT !.x = -12]
    /\ call.args.second.spectrum.flux.unit = u_Jy
    /\ PrimaryValues = <<Num(2), Num(2)>>
    /\ call.args.second.spectrum.flux.value = <<Num(-2), Num(2)>>
    /\ Resampled = <<Num(-2), Num(0)>>
    /\ RatioValues = <<Num(-1), [Num(2) EXCEPT !.x = 12]>>

(***************************************************************************)
(* JWSTMastClient (jwst_viewer/mast_client.py), under SpecMast.  The       *)
(* archive is the environment: what each request returns, a table or an    *)
(* exception, is an input of the call.  A table is its column names and    *)
(* its rows; an argument that is None or empty is "".                      *)
(***************************************************************************)
\* a criterion that is one value, and one that is a list of values
Scalar(value) == [kind |-> "scalar", values |-> <<value>>]
List(values) == [kind |-> "list", values |-> values]

\* Table()
EmptyTable == [colnames |-> {}, rows |-> <<>>]

\* table[mask]: the rows that satisfy keep, under the same columns
Rows(t, keep(_)) == [t EXCEPT !.rows = SelectSeq(t.rows, keep)]

\* discover_observations: the criteria it hands to Observations.query_criteria
discover_observations(program_id, target_name, instrument_name, filters) ==
    filters @@
    (IF instrument_name # "" THEN ("instrument_name" :> Scalar(instrument_name)) ELSE <<>>) @@
    (IF target_name # "" THEN ("target_name" :> Scalar(target_name)) ELSE <<>>) @@
    (IF program_id # "" THEN ("proposal_id" :> Scalar(program_id)) ELSE <<>>) @@
    ("obs_collection" :> Scalar("JWST")) @@ ("dataproduct_type" :> Scalar("spectrum"))

\* a message left as it was at the start of the call
InitialMessage_kept(message) == message

\* self._last_query_relaxed_message = None
InitialMessage(message) == <<>>

\* the target asked for as it is
WildcardTarget_exact(target_name) == target_name

\* wildcard_target = f"{target_name}*"
WildcardTarget(target_name) == target_name \o "*"

\* every entry allowed
Allowed_any(value, entry) == TRUE

\* a filter value applied to the entry of a row: membership for a list,
\* tuple or set, equality otherwise
Allowed(value, entry) ==
    IF value.kind = "list"
    THEN \E i \in 1..Len(value.values) : value.values[i] = entry
    ELSE entry = value.values[1]

\* the result of the positional lookup narrowed to the JWST spectra of the
\* instrument and the filters, by the columns the result has
FilterLookup(broader_results, instrument_name, filters) ==
    LET by_collection ==
            IF Len(broader_results.rows) # 0 /\ "obs_collection" \in broader_results.colnames
            THEN Rows(broader_results, LAMBDA row : row["obs_collection"] = "JWST")
            ELSE broader_results
        by_type ==
            IF Len(by_collection.rows) # 0 /\ "dataproduct_type" \in by_collection.colnames
            THEN Rows(by_collection, LAMBDA row : row["dataproduct_type"] = "spectrum")
            ELSE by_collection
        by_instrument ==
            IF instrument_name # "" /\ "instrument_name" \in by_type.colnames
            THEN Rows(by_type, LAMBDA row : row["instrument_name"] = instrument_name)
            ELSE by_type
    IN  IF DOMAIN filters # {} /\ Len(by_instrument.rows) # 0
        THEN Rows(by_instrument,
                  LAMBDA row : \A key \in DOMAIN filters \cap by_instrument.colnames :
                                  Allowed(filters[key], row[key]))
        ELSE by_instrument

\* one request to the archive, and what came of it
Request(api, criteria, reply) ==
    [api |-> api, criteria |-> criteria, raised |-> reply.raised,
     rows |-> IF reply.raised THEN 0 ELSE Len(reply.table.rows)]

\* discover_and_download(program_id=..., target_name=..., instrument_name=...,
\* filters=...) of a client whose message is `message`: exact is what the
\* first query returns, second what the relaxed or the wildcard query
\* returns, lookup what Observations.query_object returns, products the
\* number of products the archive lists for the observations.  The value is
\* the message left, the requests made in order, whether an exception left
\* the call, and the observations and the number of products returned.
discover_and_download(message, args, exact, second, lookup, products) ==
    LET cleared == InitialMessage(message)
        first_request ==
            Request("query_criteria",
                    discover_observations(args.program_id, args.target_name,
                                          args.instrument_name, args.filters), exact)
        relax_program ==
            Request("query_criteria",
                    discover_observations(args.program_id, "", args.instrument_name,
                                          args.filters), second)
        relax_target ==
            Request("query_criteria",
                    discover_observations("", WildcardTarget(args.target_name),
                                          args.instrument_name, args.filters), second)
        positional ==
            Request("query_object",
                    ("target_name" :> Scalar(args.target_name)) @@
                    ("radius" :> Scalar("0d0m30s")), lookup)
        broader_results == IF lookup.raised THEN EmptyTable ELSE lookup.table
        done(msg, requests, observations) ==
            LET listed == IF Len(observations.rows) = 0 THEN 0 ELSE products
            IN  [message |-> msg, requests |-> requests, raised |-> FALSE,
                 observations |-> observations, products |-> listed,
                 metadata |-> listed]
        failed(msg, requests) ==
            [message |-> msg, requests |-> requests, raised |-> TRUE,
             observations |-> EmptyTable, products |-> 0, metadata |-> 0]
    IN  IF exact.raised THEN failed(cleared, <<first_request>>)
        ELSE IF Len(exact.table.rows) = 0 /\ args.program_id # "" /\ args.target_name # ""
        THEN LET msg == <<"Exact target match '" \o args.target_name \o "' within program "
                          \o args.program_id \o " returned no JWST observations; "
                          \o "broadening the search to all targets in that program.">>
             IN  IF second.raised THEN failed(msg, <<first_request, relax_program>>)
                 ELSE done(msg, <<first_request, relax_program>>, second.table)
        ELSE IF Len(exact.table.rows) = 0 /\ args.target_name # "" /\ args.program_id = ""
        THEN LET msg == <<"Exact target match '" \o args.target_name
                          \o "' returned no JWST observations; "
                          \o "broadening the search using wildcard and positional lookups.">>
             IN  IF second.raised THEN failed(msg, <<first_request, relax_target>>)
                 ELSE IF Len(second.table.rows) # 0
                 THEN done(msg, <<first_request, relax_target>>, second.table)
                 ELSE done(msg, <<first_request, relax_target, positional>>,
                           FilterLookup(broader_results, args.instrument_name, args.filters))
        ELSE done(cleared, <<first_request>>, exact.table)

\* the rows the archive holds near the target: a JWST spectrum of NIRSpec
\* taken for science, and rows that differ from it in one column
ArchiveRows ==
    LET row(collection, type, instrument, intent) ==
            ("obs_collection" :> collection) @@ ("dataproduct_type" :> type) @@
            ("instrument_name" :> instrument) @@ ("intentType" :> intent)
    IN  { row("JWST", "spectrum", "NIRSpec", "SCIENCE"),
          row("HST", "spectrum", "NIRSpec", "SCIENCE"),
          row("JWST", "image", "NIRSpec", "SCIENCE"),
          row("JWST", "spectrum", "MIRI", "SCIENCE"),
          row("JWST", "spectrum", "NIRSpec", "CALIBRATION") }

\* what Observations.query_criteria can do: return no observation, return
\* one, or raise
QueryResults ==
    LET observation == CHOOSE row \in ArchiveRows :
                          row["obs_collection"] = "JWST" /\ row["dataproduct_type"] = "spectrum"
                          /\ row["instrument_name"] = "NIRSpec" /\ row["intentType"] = "SCIENCE"
    IN  { [raised |-> FALSE, table |-> EmptyTable],
          [raised |-> FALSE, table |-> [colnames |-> DOMAIN observation, rows |-> <<observation>>]],
          [raised |-> TRUE, table |-> EmptyTable] }

\* what Observations.query_object can do: return up to MaxObs rows under all
\* the columns or without one of them, or raise
LookupResults ==
    LET all == {"obs_collection", "dataproduct_type", "instrument_name", "intentType"}
    IN  { [raised |-> TRUE, table |-> EmptyTable], [raised |-> FALSE, table |-> EmptyTable] }
        \cup
        UNION { { [raised |-> FALSE,
                   table |-> [colnames |-> colnames,
                              rows |-> [i \in 1..n |-> [c \in colnames |-> rows[i][c]]]]] :
                     rows \in [1..n -> ArchiveRows],
                     colnames \in {all} \cup {all \ {c} : c \in all} } :
                n \in 1..MaxObs }

\* the arguments of the calls of the model: with and without a program, a
\* target and an instrument, and without filters, with a filter of one value
\* or with a filter of a list of values
MastArgs ==
    [program_id : {"", "1234"}, target_name : {"", "M31"}, instrument_name : {"", "NIRSpec"},
     filters : {<<>>, ("intentType" :> Scalar("SCIENCE")),
                ("intentType" :> List(<<"SCIENCE", "CALIBRATION">>))}]

\* JWSTMastClient(): no message
InitMast ==
    /\ NoLoad
    /\ call = NoOut
    /\ jobs = NoOut
    /\ mast = [message |-> <<>>, last |-> NoOut]

\* one discover_and_download call on the client; the archive is asked what
\* the call asks it
DiscoverAndDownload ==
    /\ \E args \in MastArgs, exact \in QueryResults :
         LET relaxes == ~exact.raised /\ Len(exact.table.rows) = 0 /\ args.target_name # ""
         IN  \E second \in IF relaxes THEN QueryResults ELSE {exact} :
               LET looks_up == /\ relaxes
                               /\ args.program_id = ""
                               /\ ~second.raised
                               /\ Len(second.table.rows) = 0
               IN  \E lookup \in IF looks_up THEN LookupResults ELSE {exact},
                      products \in 0..1 :
                     LET ret == discover_and_download(mast.message, args, exact, second,
                                                      lookup, products)
                     IN  mast' = [message |-> ret.message,
                                  last |-> [args |-> args, ret |-> ret]]
    /\ UNCHANGED <<loadvars, call, jobs>>

SpecMast == InitMast /\ [][DiscoverAndDownload]_vars

(***************************************************************************)
(* Properties of JWSTMastClient (SpecMast)                                 *)
(***************************************************************************)
Called == mast.last # NoOut
Requests == mast.last.ret.requests
MastArg == mast.last.args

\* the criteria of a query for JWST spectra with the program, target,
\* instrument and filters given
Criteria(program_id, target_name) ==
    discover_observations(program_id, target_name, MastArg.instrument_name, MastArg.filters)

\* request i is a query by criteria with the criteria given
IsQuery(i, criteria) == Requests[i].api = "query_criteria" /\ Requests[i].criteria = criteria

\* request i returned a table without rows
FoundNothing(i) == ~Requests[i].raised /\ Requests[i].rows = 0

\* C21: the first request is the exact query; a second is made exactly when
\* the exact query returned no observation and a target was given: without
\* a program it is the wildcard query for '<target>*', and the positional
\* lookup follows exactly when the wildcard query too returned nothing; with
\* a program it is the query without the target, and nothing follows it
C21_ExactThenRelax ==
    Called =>
        /\ Len(Requests) >= 1
        /\ IsQuery(1, Criteria(MastArg.program_id, MastArg.target_name))
        /\ Len(Requests) >= 2 <=> (FoundNothing(1) /\ MastArg.target_name # "")
        /\ Len(Requests) >= 2 /\ MastArg.program_id = ""
              => /\ IsQuery(2, Criteria("", MastArg.target_name \o "*"))
                 /\ Len(Requests) >= 3 <=> FoundNothing(2)
        /\ Len(Requests) >= 2 /\ MastArg.program_id # ""
              => /\ IsQuery(2, Criteria(MastArg.program_id, ""))
                 /\ Len(Requests) = 2
        /\ Len(Requests) >= 3
              => /\ Requests[3].api = "query_object"
                 /\ Requests[3].criteria["target_name"] = Scalar(MastArg.target_name)
                 /\ Len(Requests) = 3

\* a call with a target and no program whose exact and wildcard queries
\* found nothing and whose positional lookup found a row
C21_Witness ==
    /\ Called
    /\ MastArg.program_id = "" /\ MastArg.target_name = "M31"
    /\ Len(Requests) = 3
    /\ FoundNothing(1) /\ FoundNothing(2)
    /\ Requests[3].rows = 1

\* the call fell back to the positional lookup and returned
LookedUp == Called /\ Len(Requests) = 3 /\ ~mast.last.ret.raised
Observations == mast.last.ret.observations

\* C22: every observation returned after the positional lookup is of
\* collection JWST, of type spectrum, of the instrument asked for if one was,
\* and has, for every filter key, a value the filter allows (one of the list
\* for a list, the value itself otherwise), each for the columns the
\* returned table has
C22_LookupFiltered ==
    LookedUp =>
        \A i \in 1..Len(Observations.rows) :
            LET row == Observations.rows[i]
                has(column) == column \in Observations.colnames
            IN  /\ DOMAIN row = Observations.colnames
                /\ has("obs_collection") => row["obs_collection"] = "JWST"
                /\ has("dataproduct_type") => row["dataproduct_type"] = "spectrum"
                /\ has("instrument_name") /\ MastArg.instrument_name # ""
                      => row["instrument_name"] = MastArg.instrument_name
                /\ \A key \in DOMAIN MastArg.filters :
                      has(key) =>
                         LET value == MastArg.filters[key]
                         IN  IF value.kind = "list"
                             THEN row[key] \in {value.values[j] : j \in 1..Len(value.values)}
                             ELSE row[key] = value.values[1]

\* a lookup for NIRSpec with a filter of one value, answered with a table of
\* all the columns, that returns one observation: the other row of the
\* answer was dropped
C22_Witness ==
    /\ LookedUp
    /\ MastArg.instrument_name = "NIRSpec"
    /\ MastArg.filters = ("intentType" :> Scalar("SCIENCE"))
    /\ Requests[3].rows = 2
    /\ Len(Observations.rows) = 1
    /\ Observations.colnames =
          {"obs_collection", "dataproduct_type", "instrument_name", "intentType"}

\* the exact query of the last call returned no observation and a target was
\* given
RelaxedLast == FoundNothing(1) /\ MastArg.target_name # ""

\* C27: after any sequence of calls the message is set exactly when the
\* exact query of the last call returned no observation and a target was
\* given; a message of an earlier call does not outlive a call that did not
\* relax
C27_RelaxedMessage ==
    /\ ~Called => mast.message = <<>>
    /\ Called => (mast.message # <<>> <=> RelaxedLast)
    /\ Called => mast.message = mast.last.ret.message

\* a client with a message after a call with a program and a target whose
\* exact query found nothing
C27_Witness ==
    /\ Called
    /\ MastArg.program_id # "" /\ MastArg.target_name # ""
    /\ FoundNothing(1)
    /\ mast.message # <<>>

(***************************************************************************)
(* Properties of the deferred padding (SpecAcc)                            *)
(***************************************************************************)
\* the cells of the column at position idx, one per processed row
CellsOf(idx) == [i \in 1..Len(hist) |-> hist[i][idx]]

C23_Deferred ==
    /\ out = NoOut
    /\ acc.row_count = 2
    /\ acc.pending_nans["flux"] = 2
    /\ acc.buffers["flux"] = <<>>
    /\ Len(acc.buffers["wavelength"]) = 2

(***************************************************************************)
(* Properties of the rows offered to the reservoir (SpecCalls, SpecAcc)    *)
(***************************************************************************)
\* the rows of a chunk with at least two finite cells
TwoFinite(rows) ==
    {r \in 1..Len(rows) :
        Cardinality({i \in 1..Len(rows[r]) : IsFinite(rows[r][i])}) >= 2}

\* C24 as stated: with n the number of processed rows that have at least two
\* finite cells, every reservoir tier of capacity k holds exactly min(n, k)
\* rows, each the mapping of the finite cells of a distinct such row, and the
\* reservoir has seen n rows
C24_AsStated ==
    (call.fn = "process_chunk" /\ call.ret # NoOut) =>
        LET rows == call.args.chunk
            n == Cardinality(TwoFinite(rows))
        IN  /\ call.ret.reservoir.total_seen = n
            /\ \A size \in TierSizes :
                  LET bucket == call.ret.reservoir.tiers[size]
                  IN  /\ Len(bucket) = Min2(n, size)
                      /\ \E f \in [1..Len(bucket) -> TwoFinite(rows)] :
                            /\ \A s, t \in 1..Len(bucket) : f[s] = f[t] => s = t
                            /\ \A s \in 1..Len(bucket) :
                                  bucket[s] = RowDict(rows[f[s]], call.args.columns)

\* the same for an accumulator whose column names are distinct, after any
\* sequence of chunks
C24_DistinctNames ==
    LET n == Cardinality(TwoFinite(hist))
    IN  /\ acc.reservoir.total_seen = n
        /\ \A size \in TierSizes :
              LET bucket == acc.reservoir.tiers[size]
              IN  /\ Len(bucket) = Min2(n, size)
                  /\ \E f \in [1..Len(bucket) -> TwoFinite(hist)] :
                        /\ \A s, t \in 1..Len(bucket) : f[s] = f[t] => s = t
                        /\ \A s \in 1..Len(bucket) :
                              bucket[s] = RowDict(hist[f[s]], AccColumns)

\* two columns of one name: a row with two finite cells was processed and
\* no tier holds a row
C24_SameName ==
    /\ call.fn = "process_chunk"
    /\ call.ret # NoOut
    /\ call.args.columns = <<"flux", "flux">>
    /\ call.args.chunk = <<<<Num(2), Num(3)>>>>
    /\ call.ret.row_count = 1
    /\ call.ret.reservoir.total_seen = 0
    /\ \A size \in TierSizes : call.ret.reservoir.tiers[size] = <<>>

(***************************************************************************)
(* Properties of the fallback reader (Spec)                                *)
(***************************************************************************)
\* the data rows read so far, as the accumulator is to receive them
RowsRead == ParseRows(lines.rows, Len(columns))

\* C25: the rows handed to the accumulator followed by the rows waiting in
\* chunk_rows are the data rows read so far, in source order; fewer than
\* CHUNK_SIZE rows wait between two lines; once the stream has ended none
\* waits; each process_chunk call receives between one and CHUNK_SIZE rows,
\* the next ones of the source
C25_EveryRowOnce ==
    /\ [](/\ hist \o ParseRows(chunk_rows, Len(columns)) = RowsRead
          /\ Len(chunk_rows) < CHUNK_SIZE
          /\ pc \notin {"idle", "reading"} => (chunk_rows = <<>> /\ hist = RowsRead))
    /\ [][(hist' # hist =>
               /\ nchunks' = nchunks + 1
               /\ Len(hist') - Len(hist) \in 1..CHUNK_SIZE
               /\ hist' = SubSeq(ParseRows(lines'.rows, Len(columns')), 1, Len(hist'))
               /\ SubSeq(hist', 1, Len(hist)) = hist)
           /\ (nchunks' # nchunks => hist' # hist)]_vars

\* a source whose first line is data: it went to the accumulator with the
\* second line as one chunk, and the third line as the last, partial chunk
C25_Witness ==
    /\ pc = "table"
    /\ lines.header = <<>>
    /\ Len(lines.rows) = 3
    /\ nchunks = 2
    /\ hist = RowsRead

(***************************************************************************)
(* Properties of the sort of the spectral axis (Spec)                      *)
(***************************************************************************)
\* the input has more than one row, and the wavelengths of its rows are
\* numbers no two of which are equal
DistinctWavelengths ==
    /\ Len(InWave) > 1
    /\ \A i \in 1..Len(InWave) : IsFinite(InWave[i])
    /\ \A i, j \in 1..Len(InWave) : i # j => InWave[i] # InWave[j]

\* the point load_ascii_spectrum makes of row i: its wavelength in nm and
\* its flux converted at that wavelength
PointOf(i) ==
    LET at == ConvertValues(<<InWave[i]>>, InWaveUnit, CANONICAL_WAVELENGTH_UNIT)[1]
    IN  <<at, FluxToCanonical(<<InFlux[i]>>, InFluxUnit, <<at>>).value[1]>>

C28_TwoRoles ==
    Selected =>
        (Cardinality(ColSet(call.args.columns)) >= 2 => call.ret[1] # call.ret[2])

\* no header names a wavelength and the first column names a flux: that
\* column is returned for both roles although another column is there
C28_SameColumn ==
    /\ Selected
    /\ call.args.columns = <<"counts", "x">>
    /\ call.ret = <<"counts", "counts">>

(***************************************************************************)
(* Properties of repeated finalize() (SpecAcc)                             *)
(***************************************************************************)
\* the rows the step hands to process_chunk
StepChunk == SubSeq(hist', Len(hist) + 1, Len(hist'))

\* C29: whenever finalize() has returned, another call returns the same and
\* leaves the accumulator as it is; a call changes neither row_count, the
\* statistics nor the reservoir; and a process_chunk call leaves the
\* accumulator, finalize() then gone through, as it would be had finalize()
\* been called right before the chunk
C29_FinalizeIdempotent ==
    /\ [](out # NoOut => Finalize(acc) = [a |-> acc, ret |-> out])
    /\ [][((hist' = hist /\ out' # NoOut) =>
               /\ out' = Finalize(acc).ret
               /\ acc'.row_count = acc.row_count
               /\ acc'.stats = acc.stats
               /\ acc'.reservoir = acc.reservoir
               /\ (out # NoOut => out' = out /\ acc' = acc))
           /\ (hist' # hist =>
                 \A draws \in DrawsFor(acc, StepChunk, AccColumns) :
                     ProcessChunk(acc, StepChunk, AccColumns, draws).a = acc' =>
                        Finalize(ProcessChunk(Finalize(acc).a, StepChunk, AccColumns,
                                              draws).a) = Finalize(acc'))]_vars

\* finalize() has returned on a stream of three rows whose flux column ends
\* in a cell that is no number: the deferred count was flushed, rows are in
\* the reservoir
C29_Witness ==
    /\ out # NoOut
    /\ Len(hist) = 3
    /\ IsFinite(hist[1][2])
    /\ ~IsFinite(hist[3][2])
    /\ acc.pending_nans["flux"] = 0
    /\ Len(acc.buffers["flux"]) = 3
    /\ acc.reservoir.total_seen >= 1
    /\ out.row_count = 3

\* finalize() was called in the middle of the stream: the flux buffer ends
\* in the padding it flushed, and a later chunk defers again
C29_MidStream ==
    /\ out = NoOut
    /\ Len(hist) = 3
    /\ Len(acc.buffers["flux"]) = 2
    /\ ~IsFinite(acc.buffers["flux"][2])
    /\ acc.pending_nans["flux"] = 1

(***************************************************************************)
(* Properties of the tier previews under to_canonical_units (SpecCalls)    *)
(***************************************************************************)
\* C30 as stated: the record to_canonical_units() returns carries the tier
\* previews of the record it was called on
C30_TiersSurvive ==
    Canonicalized =>
        call.ret.record.spectrum.meta.downsampled_tiers
            = call.args.self.spectrum.meta.downsampled_tiers

\* a record with the preview of one tier, named in its extra mapping: the
\* record returned names the tier and carries no preview
C30_TiersLost ==
    /\ Canonicalized
    /\ call.args.self.spectrum.meta.downsampled_tiers # <<>>
    /\ call.ret.record.spectrum.meta.downsampled_tiers = <<>>
    /\ call.ret.record.metadata.extra["downsample_tiers"] = "1"

====
